---- MODULE Spec2Model ----
(***************************************************************************)
(* Astrolabe graph engine: the in-memory Graph store (pkg/graph/types.go)  *)
(* and the per-kind processors that turn watch events into graph           *)
(* mutations (pkg/processors).                                             *)
(*                                                                         *)
(* Go maps are functions with a dynamic domain, Go slices are sequences,   *)
(* a *Node held by an index bucket is the UID of the node it points to     *)
(* (AddNode always swaps the bucket entry for the pointer it stores in the *)
(* node map), an *Edge is the record of its fields (edges are never        *)
(* mutated after construction).                                            *)
(***************************************************************************)
EXTENDS Integers, Sequences, FiniteSets, TLC

VARIABLES graph, found, trace, steps, mu, pc, backend, pg, run

vars == <<graph, found, trace, steps, mu, pc, backend, pg, run>>

\* What the store and its callers leave alone: the persistence backend, the
\* PersistentGraph around the store, and the goroutines of main.
around == <<backend, pg, run>>

\* ------------------------------------------------------------------ maps

EmptyMap == [x \in {} |-> x]

MapPut(m, k, v) == [x \in (DOMAIN m) \cup {k} |-> IF x = k THEN v ELSE m[x]]

MapDelete(m, k) == [x \in (DOMAIN m) \ {k} |-> m[x]]

\* m[k] of a Go map of slices: the nil slice when the key is absent.
MapGetSeq(m, k) == IF k \in DOMAIN m THEN m[k] ELSE <<>>

\* m[k] of a Go map of maps, absent key read as an empty map.
MapGetMap(m, k) == IF k \in DOMAIN m THEN m[k] ELSE EmptyMap

\* labels[key] of a Go map[string]string: "" when the key is absent.
LabelGet(labels, k) == IF k \in DOMAIN labels THEN labels[k] ELSE ""

Range(s) == {s[i] : i \in DOMAIN s}

\* ------------------------------------------------------------ edge types

EdgeOwnership == "owns"

EdgeServiceSelector == "selects"

EdgeServiceEndpoint == "endpoints"

EdgePodVolume == "mounts"

EdgePVCBinding == "binds"

Edge(type, from, to) == [Type |-> type, FromUID |-> from, ToUID |-> to]

RefKey(gv, kind, namespace, name) ==
    [GV |-> gv, Kind |-> kind, Namespace |-> namespace, Name |-> name]

PendingEdge(fromUID, targetRef, edgeType) ==
    [FromUID |-> fromUID, TargetRef |-> targetRef, EdgeType |-> edgeType]

ReversePendingEdge(toUID, sourceRef, edgeType) ==
    [ToUID |-> toUID, SourceRef |-> sourceRef, EdgeType |-> edgeType]

\* ----------------------------------------------------------------- Graph

NewGraph ==
    [nodes |-> EmptyMap,
     byNamespaceKind |-> EmptyMap,
     byHelmRelease |-> EmptyMap,
     byLabel |-> EmptyMap,
     pendingEdges |-> EmptyMap,
     reversePendingEdges |-> EmptyMap]

\* Removes the first entry of the slice that points to a node with this UID.
RECURSIVE removeNodeFromSlice(_, _)
removeNodeFromSlice(bucket, uid) ==
    IF bucket = <<>> THEN <<>>
    ELSE IF Head(bucket) = uid THEN Tail(bucket)
    ELSE <<Head(bucket)>> \o removeNodeFromSlice(Tail(bucket), uid)

nsKeyOf(namespace) == IF namespace = "" THEN "_cluster" ELSE namespace

\* The label loop of addToIndexes, one key at a time (the buckets of two
\* keys are disjoint, so the order of Go's map iteration does not matter).
RECURSIVE addLabels(_, _, _)
addLabels(byLabel, node, keys) ==
    IF keys = {} THEN byLabel
    ELSE LET key == CHOOSE k \in keys : TRUE
             value == node.Labels[key]
             valueMap == MapGetMap(byLabel, key)
         IN addLabels(
                MapPut(byLabel, key,
                       MapPut(valueMap, value,
                              Append(MapGetSeq(valueMap, value), node.UID))),
                node, keys \ {key})

addToIndexes(g, node) ==
    LET nsKey == nsKeyOf(node.Namespace)
        kindMap == MapGetMap(g.byNamespaceKind, nsKey)
    IN [g EXCEPT
          !.byNamespaceKind =
              MapPut(@, nsKey,
                     MapPut(kindMap, node.Kind,
                            Append(MapGetSeq(kindMap, node.Kind), node.UID))),
          !.byHelmRelease =
              IF node.HelmRelease # ""
              THEN MapPut(@, node.HelmRelease,
                          Append(MapGetSeq(@, node.HelmRelease), node.UID))
              ELSE @,
          !.byLabel = addLabels(@, node, DOMAIN node.Labels)]

RECURSIVE removeLabels(_, _, _)
removeLabels(byLabel, node, keys) ==
    IF keys = {} THEN byLabel
    ELSE LET key == CHOOSE k \in keys : TRUE
             value == node.Labels[key]
         IN IF key \notin DOMAIN byLabel
            THEN removeLabels(byLabel, node, keys \ {key})
            ELSE LET valueMap == byLabel[key]
                     left == IF value \in DOMAIN valueMap
                             THEN removeNodeFromSlice(valueMap[value], node.UID)
                             ELSE <<>>
                     valueMap1 ==
                         IF value \notin DOMAIN valueMap THEN valueMap
                         ELSE IF Len(left) = 0 THEN MapDelete(valueMap, value)
                         ELSE MapPut(valueMap, value, left)
                 IN removeLabels(
                        IF DOMAIN valueMap1 = {} THEN MapDelete(byLabel, key)
                        ELSE MapPut(byLabel, key, valueMap1),
                        node, keys \ {key})

removeFromIndexes(g, node) ==
    LET nsKey == nsKeyOf(node.Namespace)
        byNsKind ==
            IF nsKey \notin DOMAIN g.byNamespaceKind THEN g.byNamespaceKind
            ELSE LET kindMap == g.byNamespaceKind[nsKey]
                     left == IF node.Kind \in DOMAIN kindMap
                             THEN removeNodeFromSlice(kindMap[node.Kind], node.UID)
                             ELSE <<>>
                     kindMap1 ==
                         IF node.Kind \notin DOMAIN kindMap THEN kindMap
                         ELSE IF Len(left) = 0 THEN MapDelete(kindMap, node.Kind)
                         ELSE MapPut(kindMap, node.Kind, left)
                 IN IF DOMAIN kindMap1 = {}
                    THEN MapDelete(g.byNamespaceKind, nsKey)
                    ELSE MapPut(g.byNamespaceKind, nsKey, kindMap1)
        byRelease ==
            IF node.HelmRelease # "" /\ node.HelmRelease \in DOMAIN g.byHelmRelease
            THEN LET left == removeNodeFromSlice(g.byHelmRelease[node.HelmRelease],
                                                 node.UID)
                 IN IF Len(left) = 0
                    THEN MapDelete(g.byHelmRelease, node.HelmRelease)
                    ELSE MapPut(g.byHelmRelease, node.HelmRelease, left)
            ELSE g.byHelmRelease
    IN [g EXCEPT !.byNamespaceKind = byNsKind,
                 !.byHelmRelease = byRelease,
                 !.byLabel = removeLabels(@, node, DOMAIN node.Labels)]

\* The refs of a pending table that name this node: namespace, kind and name
\* are compared, the group/version of the ref is not.
matchedKeys(table, node) ==
    {refKey \in DOMAIN table :
        /\ refKey.Namespace = node.Namespace
        /\ refKey.Kind = node.Kind
        /\ refKey.Name = node.Name}

\* The inner loop over one pending list where the new node is the TARGET.
RECURSIVE drainPendingList(_, _, _)
drainPendingList(nodes, uid, pendingList) ==
    IF pendingList = <<>> THEN nodes
    ELSE LET pending == Head(pendingList)
             edge == Edge(pending.EdgeType, pending.FromUID, uid)
             nodes1 ==
                 IF pending.FromUID \in DOMAIN nodes
                 THEN LET n1 == [nodes EXCEPT ![pending.FromUID].OutgoingEdges =
                                                  MapPut(@, uid, edge)]
                      IN [n1 EXCEPT ![uid].IncomingEdges =
                                        MapPut(@, pending.FromUID, edge)]
                 ELSE nodes
         IN drainPendingList(nodes1, uid, Tail(pendingList))

\* The inner loop over one reverse pending list where the new node is the SOURCE.
RECURSIVE drainReversePendingList(_, _, _)
drainReversePendingList(nodes, uid, reversePendingList) ==
    IF reversePendingList = <<>> THEN nodes
    ELSE LET reversePending == Head(reversePendingList)
             edge == Edge(reversePending.EdgeType, uid, reversePending.ToUID)
             nodes1 ==
                 IF reversePending.ToUID \in DOMAIN nodes
                 THEN LET n1 == [nodes EXCEPT ![uid].OutgoingEdges =
                                                  MapPut(@, reversePending.ToUID, edge)]
                      IN [n1 EXCEPT ![reversePending.ToUID].IncomingEdges =
                                        MapPut(@, uid, edge)]
                 ELSE nodes
         IN drainReversePendingList(nodes1, uid, Tail(reversePendingList))

\* The outer loops, over the matching refs in the order Go's map iteration
\* happened to produce them.
RECURSIVE drainPendingKeys(_, _, _, _)
drainPendingKeys(nodes, uid, table, keyOrder) ==
    IF keyOrder = <<>> THEN nodes
    ELSE drainPendingKeys(drainPendingList(nodes, uid, table[Head(keyOrder)]),
                          uid, table, Tail(keyOrder))

RECURSIVE drainReversePendingKeys(_, _, _, _)
drainReversePendingKeys(nodes, uid, table, keyOrder) ==
    IF keyOrder = <<>> THEN nodes
    ELSE drainReversePendingKeys(
             drainReversePendingList(nodes, uid, table[Head(keyOrder)]),
             uid, table, Tail(keyOrder))

RECURSIVE deleteKeys(_, _)
deleteKeys(table, keys) ==
    IF keys = {} THEN table
    ELSE LET k == CHOOSE x \in keys : TRUE
         IN deleteKeys(MapDelete(table, k), keys \ {k})

\* The orders in which a range over a Go map can visit a set of keys.
Orders(keys) ==
    {s \in [1..Cardinality(keys) -> keys] : Range(s) = keys}

\* processPendingEdgesForNode for one iteration order of each table.
processPendingEdgesForNodeIn(g, node, pendingOrder, reverseOrder) ==
    LET nodes1 == drainPendingKeys(g.nodes, node.UID, g.pendingEdges, pendingOrder)
        nodes2 == drainReversePendingKeys(nodes1, node.UID, g.reversePendingEdges,
                                          reverseOrder)
    IN [g EXCEPT !.nodes = nodes2,
                 !.pendingEdges = deleteKeys(@, Range(pendingOrder)),
                 !.reversePendingEdges = deleteKeys(@, Range(reverseOrder))]

\* Every graph processPendingEdgesForNode can leave behind.
processPendingEdgesForNode(g, node) ==
    {processPendingEdgesForNodeIn(g, node, po, ro) :
        po \in Orders(matchedKeys(g.pendingEdges, node)),
        ro \in Orders(matchedKeys(g.reversePendingEdges, node))}

\* An AddNode that revokes the index entries of the node it was handed
\* instead of those of the node it replaces.
AddNodeRevokingNew(g, node) ==
    LET isUpdate == node.UID \in DOMAIN g.nodes
        g1 == IF isUpdate THEN removeFromIndexes(g, node) ELSE g
        g2 == [g1 EXCEPT !.nodes = MapPut(@, node.UID, node)]
        g3 == addToIndexes(g2, node)
    IN IF ~isUpdate THEN processPendingEdgesForNode(g3, node) ELSE {g3}

\* An upsert that leaves the node it finds under the UID as it is.
AddNodeOnce(g, node) ==
    IF node.UID \in DOMAIN g.nodes THEN {g}
    ELSE processPendingEdgesForNode(
             addToIndexes([g EXCEPT !.nodes = MapPut(@, node.UID, node)], node),
             node)

\* An upsert that hands the adjacency maps of the node it replaces to the
\* node that replaces it.
AddNodeKeepingEdges(g, node) ==
    LET isUpdate == node.UID \in DOMAIN g.nodes
        kept == IF isUpdate
                THEN [node EXCEPT !.OutgoingEdges = g.nodes[node.UID].OutgoingEdges,
                                  !.IncomingEdges = g.nodes[node.UID].IncomingEdges]
                ELSE node
        g1 == IF isUpdate THEN removeFromIndexes(g, g.nodes[node.UID]) ELSE g
        g2 == [g1 EXCEPT !.nodes = MapPut(@, node.UID, kept)]
        g3 == addToIndexes(g2, kept)
    IN IF ~isUpdate THEN processPendingEdgesForNode(g3, kept) ELSE {g3}

\* Graph.AddNode: the set of graphs it can leave behind (one, unless two
\* pending refs match the new node).
AddNode(g, node) ==
    LET isUpdate == node.UID \in DOMAIN g.nodes
        g1 == IF isUpdate THEN removeFromIndexes(g, g.nodes[node.UID]) ELSE g
        g2 == [g1 EXCEPT !.nodes = MapPut(@, node.UID, node)]
        g3 == addToIndexes(g2, node)
    IN IF ~isUpdate THEN processPendingEdgesForNode(g3, node) ELSE {g3}

RemoveNode(g, uid) ==
    IF uid \notin DOMAIN g.nodes THEN g
    ELSE LET node == g.nodes[uid]
             targets == {node.OutgoingEdges[k].ToUID : k \in DOMAIN node.OutgoingEdges}
             sources == {node.IncomingEdges[k].FromUID : k \in DOMAIN node.IncomingEdges}
             nodes1 == [u \in DOMAIN g.nodes |->
                          [g.nodes[u] EXCEPT
                             !.IncomingEdges =
                                 IF u \in targets THEN MapDelete(@, uid) ELSE @,
                             !.OutgoingEdges =
                                 IF u \in sources THEN MapDelete(@, uid) ELSE @]]
             g1 == removeFromIndexes([g EXCEPT !.nodes = nodes1], nodes1[uid])
         IN [g1 EXCEPT !.nodes = MapDelete(@, uid)]

GetNode(g, uid) == uid \in DOMAIN g.nodes

\* The boolean Graph.AddEdge returns.
AddEdgeOK(g, edge) ==
    edge.FromUID \in DOMAIN g.nodes /\ edge.ToUID \in DOMAIN g.nodes

AddEdge(g, edge) ==
    IF ~AddEdgeOK(g, edge) THEN g
    ELSE LET n1 == [g.nodes EXCEPT ![edge.FromUID].OutgoingEdges =
                                       MapPut(@, edge.ToUID, edge)]
         IN [g EXCEPT !.nodes =
                [n1 EXCEPT ![edge.ToUID].IncomingEdges =
                               MapPut(@, edge.FromUID, edge)]]

RemoveEdge(g, fromUID, toUID) ==
    LET n1 == IF fromUID \in DOMAIN g.nodes
              THEN [g.nodes EXCEPT ![fromUID].OutgoingEdges = MapDelete(@, toUID)]
              ELSE g.nodes
    IN [g EXCEPT !.nodes =
           IF toUID \in DOMAIN n1
           THEN [n1 EXCEPT ![toUID].IncomingEdges = MapDelete(@, fromUID)]
           ELSE n1]

\* The copy of the bucket, as UIDs.
GetNodesByNamespaceKind(g, namespace, kind) ==
    MapGetSeq(MapGetMap(g.byNamespaceKind, nsKeyOf(namespace)), kind)

GetNodesByHelmRelease(g, release) == MapGetSeq(g.byHelmRelease, release)

AddPendingEdge(g, fromUID, targetRef, edgeType) ==
    [g EXCEPT !.pendingEdges =
        MapPut(@, targetRef,
               Append(MapGetSeq(@, targetRef),
                      PendingEdge(fromUID, targetRef, edgeType)))]

AddReversePendingEdge(g, toUID, sourceRef, edgeType) ==
    [g EXCEPT !.reversePendingEdges =
        MapPut(@, sourceRef,
               Append(MapGetSeq(@, sourceRef),
                      ReversePendingEdge(toUID, sourceRef, edgeType)))]

\* ------------------------------------------------------- watched objects

\* A Kubernetes object as the watch source hands it over: the meta fields the
\* processors read, and the spec/status fields of its kind (empty for the
\* kinds that have none).
Object(uid, kind, name, namespace, labels, annotations, owners) ==
    [UID |-> uid, Kind |-> kind, Name |-> name, Namespace |-> namespace,
     Labels |-> labels, Annotations |-> annotations, OwnerReferences |-> owners,
     Selector |-> EmptyMap, Claims |-> <<>>, VolumeName |-> "",
     Replicas |-> 0, ReadyReplicas |-> 0, Endpoints |-> <<>>]

ReleaseAnnotation == "meta.helm.sh/release-name"

NewNodeFromObject(obj, kind, apiVersion) ==
    [UID |-> obj.UID,
     Name |-> obj.Name,
     Namespace |-> obj.Namespace,
     Kind |-> kind,
     APIVersion |-> apiVersion,
     Labels |-> obj.Labels,
     HelmRelease |-> IF ReleaseAnnotation \in DOMAIN obj.Annotations
                     THEN obj.Annotations[ReleaseAnnotation] ELSE "",
     VolumeName |-> "",
     OutgoingEdges |-> EmptyMap,
     IncomingEdges |-> EmptyMap]

\* A node's attributes, its adjacency aside.
Attributes(node) ==
    [node EXCEPT !.OutgoingEdges = EmptyMap, !.IncomingEdges = EmptyMap]

\* The node the processor of the object's kind builds from it.
NodeOf(obj) ==
    [NewNodeFromObject(obj, obj.Kind,
                       IF obj.Kind \in {"Deployment", "ReplicaSet"}
                       THEN "apps/v1" ELSE "v1")
        EXCEPT !.VolumeName = IF obj.Kind = "PersistentVolumeClaim"
                              THEN obj.VolumeName ELSE ""]

\* ------------------------------------------------------------ processors

EventAdd == "ADD"

EventUpdate == "UPDATE"

EventDelete == "DELETE"

NoNode == "<nil>"

handleDelete(g, obj) == RemoveNode(g, obj.UID)

RECURSIVE createOwnershipEdges(_, _, _)
createOwnershipEdges(g, node, ownerRefs) ==
    IF ownerRefs = <<>> THEN g
    ELSE LET owner == Head(ownerRefs)
             g1 == IF GetNode(g, owner)
                   THEN AddEdge(g, Edge(EdgeOwnership, owner, node.UID))
                   ELSE g
         IN createOwnershipEdges(g1, node, Tail(ownerRefs))

RECURSIVE firstNamed(_, _, _)
firstNamed(g, bucket, name) ==
    IF bucket = <<>> THEN NoNode
    ELSE IF g.nodes[Head(bucket)].Name = name THEN Head(bucket)
    ELSE firstNamed(g, Tail(bucket), name)

findNodeByNamespaceKindName(g, namespace, kind, name) ==
    firstNamed(g, GetNodesByNamespaceKind(g, namespace, kind), name)

matchesSelector(labels, selector) ==
    \A key \in DOMAIN selector : LabelGet(labels, key) = selector[key]

findNodesByLabelSelector(g, namespace, kind, selector) ==
    LET bucket == GetNodesByNamespaceKind(g, namespace, kind)
    IN IF DOMAIN selector = {} THEN bucket
       ELSE SelectSeq(bucket, LAMBDA u : matchesSelector(g.nodes[u].Labels, selector))

createEdgeIfNodeExists(g, fromUID, toUID, edgeType) ==
    AddEdge(g, Edge(edgeType, fromUID, toUID))

\* `for _, x := range targets { createEdgeIfNodeExists(from, x, type) }`
RECURSIVE createEdgesTo(_, _, _, _)
createEdgesTo(g, fromUID, targets, edgeType) ==
    IF targets = <<>> THEN g
    ELSE createEdgesTo(createEdgeIfNodeExists(g, fromUID, Head(targets), edgeType),
                       fromUID, Tail(targets), edgeType)

\* The volume loop of PodProcessor.Process: an edge to each claim found.
RECURSIVE podVolumeEdges(_, _, _)
podVolumeEdges(g, pod, claims) ==
    IF claims = <<>> THEN g
    ELSE LET pvcNode == findNodeByNamespaceKindName(g, pod.Namespace,
                                                    "PersistentVolumeClaim",
                                                    Head(claims))
             g1 == IF pvcNode # NoNode
                   THEN createEdgeIfNodeExists(g, pod.UID, pvcNode, EdgePodVolume)
                   ELSE g
         IN podVolumeEdges(g1, pod, Tail(claims))

PodProcess(g, pod, eventType) ==
    IF eventType = EventDelete THEN {handleDelete(g, pod)}
    ELSE LET node == NewNodeFromObject(pod, "Pod", "v1")
         IN {podVolumeEdges(createOwnershipEdges(g1, node, pod.OwnerReferences),
                            pod, pod.Claims) : g1 \in AddNode(g, node)}

ServiceProcess(g, service, eventType) ==
    IF eventType = EventDelete THEN {handleDelete(g, service)}
    ELSE LET node == NewNodeFromObject(service, "Service", "v1")
         IN {LET g2 == createOwnershipEdges(g1, node, service.OwnerReferences)
             IN IF DOMAIN service.Selector # {}
                THEN createEdgesTo(g2, node.UID,
                                   findNodesByLabelSelector(g2, service.Namespace,
                                                            "Pod", service.Selector),
                                   EdgeServiceSelector)
                ELSE g2 : g1 \in AddNode(g, node)}

PVCProcess(g, pvc, eventType) ==
    IF eventType = EventDelete THEN {handleDelete(g, pvc)}
    ELSE LET node == [NewNodeFromObject(pvc, "PersistentVolumeClaim", "v1")
                         EXCEPT !.VolumeName = pvc.VolumeName]
         IN {LET g2 == createOwnershipEdges(g1, node, pvc.OwnerReferences)
                 pvNode == findNodeByNamespaceKindName(g2, "", "PersistentVolume",
                                                       pvc.VolumeName)
             IN IF pvc.VolumeName # "" /\ pvNode # NoNode
                THEN createEdgeIfNodeExists(g2, node.UID, pvNode, EdgePVCBinding)
                ELSE g2 : g1 \in AddNode(g, node)}

PVProcess(g, pv, eventType) ==
    IF eventType = EventDelete THEN {handleDelete(g, pv)}
    ELSE LET node == NewNodeFromObject(pv, "PersistentVolume", "v1")
         IN {createOwnershipEdges(g1, node, pv.OwnerReferences) :
                g1 \in AddNode(g, node)}

DeploymentProcess(g, deployment, eventType) ==
    IF eventType = EventDelete THEN {handleDelete(g, deployment)}
    ELSE LET node == NewNodeFromObject(deployment, "Deployment", "apps/v1")
         IN {createOwnershipEdges(g1, node, deployment.OwnerReferences) :
                g1 \in AddNode(g, node)}

ReplicaSetProcess(g, rs, eventType) ==
    IF eventType = EventDelete THEN {handleDelete(g, rs)}
    ELSE IF rs.Replicas = 0 /\ rs.ReadyReplicas = 0 THEN {g}
    ELSE LET node == NewNodeFromObject(rs, "ReplicaSet", "apps/v1")
         IN {createOwnershipEdges(g1, node, rs.OwnerReferences) :
                g1 \in AddNode(g, node)}

ServiceNameLabel == "kubernetes.io/service-name"

\* The endpoint loop of EndpointSliceProcessor.Process: an edge to each pod a
\* targetRef names.
RECURSIVE endpointPodEdges(_, _, _)
endpointPodEdges(g, endpointSlice, endpoints) ==
    IF endpoints = <<>> THEN g
    ELSE LET podNode == findNodeByNamespaceKindName(g, endpointSlice.Namespace,
                                                    "Pod", Head(endpoints))
             g1 == IF podNode # NoNode
                   THEN createEdgeIfNodeExists(g, endpointSlice.UID, podNode,
                                               EdgeServiceSelector)
                   ELSE g
         IN endpointPodEdges(g1, endpointSlice, Tail(endpoints))

EndpointSliceProcess(g, endpointSlice, eventType) ==
    IF eventType = EventDelete THEN {handleDelete(g, endpointSlice)}
    ELSE LET node == NewNodeFromObject(endpointSlice, "EndpointSlice",
                                       "discovery.k8s.io/v1")
         IN {LET g2 == createOwnershipEdges(g1, node, endpointSlice.OwnerReferences)
                 svcNode == IF ServiceNameLabel \in DOMAIN endpointSlice.Labels
                            THEN findNodeByNamespaceKindName(
                                     g2, endpointSlice.Namespace, "Service",
                                     endpointSlice.Labels[ServiceNameLabel])
                            ELSE NoNode
                 g3 == IF svcNode # NoNode
                       THEN createEdgeIfNodeExists(g2, svcNode, node.UID,
                                                   EdgeServiceEndpoint)
                       ELSE g2
             IN endpointPodEdges(g3, endpointSlice, endpointSlice.Endpoints) :
                g1 \in AddNode(g, node)}

\* StorageClassProcessor.Process: the node, and nothing from the owners.
StorageClassProcess(g, sc, eventType) ==
    IF eventType = EventDelete THEN {handleDelete(g, sc)}
    ELSE AddNode(g, NewNodeFromObject(sc, "StorageClass", "storage.k8s.io/v1"))

\* ProcessorRegistry.Process: the processor registered under the kind.
RegistryProcess(g, obj, kind, eventType) ==
    CASE kind = "Pod" -> PodProcess(g, obj, eventType)
      [] kind = "Service" -> ServiceProcess(g, obj, eventType)
      [] kind = "PersistentVolumeClaim" -> PVCProcess(g, obj, eventType)
      [] kind = "PersistentVolume" -> PVProcess(g, obj, eventType)
      [] kind = "Deployment" -> DeploymentProcess(g, obj, eventType)
      [] kind = "ReplicaSet" -> ReplicaSetProcess(g, obj, eventType)
      [] OTHER -> {g}

\* ----------------------------------------------------------- query layer
\* Lists of nodes are sequences of UIDs (the pointers the store hands out).
\* Where the code ranges over a Go map, every order is an outcome, so each
\* operation below yields the set of results it can return.

\* strings.ToLower on the kinds watched.
ToLower(kind) ==
    CASE kind = "Pod" -> "pod"
      [] kind = "Service" -> "service"
      [] kind = "PersistentVolumeClaim" -> "persistentvolumeclaim"
      [] kind = "PersistentVolume" -> "persistentvolume"
      [] kind = "Deployment" -> "deployment"
      [] kind = "ReplicaSet" -> "replicaset"
      [] OTHER -> kind

allowedKinds ==
    {"pod", "replicaset", "endpointslice", "configmap", "secret",
     "serviceaccount", "service", "persistentvolume", "persistentvolumeclaim",
     "storageclass"}

\* Graph.GetAllNodes: the nodes in the order the map range produced them.
GetAllNodes(g) == Orders(DOMAIN g.nodes)

withinNamespace(node, namespace) ==
    namespace = "" \/ node.Namespace = "" \/ node.Namespace = namespace

\* The handlers' namespace filter over a list of nodes.
filterNamespace(g, nodes, namespace) ==
    IF namespace # ""
    THEN SelectSeq(nodes, LAMBDA u : g.nodes[u].Namespace = namespace
                                        \/ g.nodes[u].Namespace = "")
    ELSE nodes

\* The base nodes that carry the requested release.
releaseNodesOf(g, base, releaseName) ==
    {u \in Range(base) : releaseName # "" /\ g.nodes[u].HelmRelease = releaseName}

\* The first loop over base: each node once, in order.
RECURSIVE withoutRepeats(_, _)
withoutRepeats(nodes, seen) ==
    IF nodes = <<>> THEN <<>>
    ELSE IF Head(nodes) \in seen THEN withoutRepeats(Tail(nodes), seen)
    ELSE <<Head(nodes)>> \o withoutRepeats(Tail(nodes), seen \cup {Head(nodes)})

\* The neighbours of current, outgoing edges first, for every order of the
\* two map ranges; peers GetNode does not find are left out.
neighboursOf(g, current) ==
    LET node == g.nodes[current]
        present(s) == SelectSeq(s, LAMBDA u : GetNode(g, u))
    IN {present([i \in DOMAIN outs |-> node.OutgoingEdges[outs[i]].ToUID])
           \o present([i \in DOMAIN ins |-> node.IncomingEdges[ins[i]].FromUID]) :
           outs \in Orders(DOMAIN node.OutgoingEdges),
           ins \in Orders(DOMAIN node.IncomingEdges)}

\* A traversal that does not look at the release a managed neighbour
\* carries.
admitsOtherReleases(g, current, neighbour, namespace, releaseName, releaseNodes) ==
    LET n == g.nodes[neighbour]
    IN /\ withinNamespace(n, namespace)
       /\ ~(releaseName # "" /\ n.HelmRelease = "" /\ current \notin releaseNodes)
       /\ ToLower(n.Kind) \in allowedKinds

\* A traversal that admits an unmanaged neighbour from any node it has
\* reached, not only from the nodes of the release.
admitsUnmanagedFromAnywhere(g, current, neighbour, namespace, releaseName, releaseNodes) ==
    LET n == g.nodes[neighbour]
    IN /\ withinNamespace(n, namespace)
       /\ ~(releaseName # "" /\ n.HelmRelease # "" /\ n.HelmRelease # releaseName)
       /\ ToLower(n.Kind) \in allowedKinds

\* Whether the traversal admits a neighbour discovered from current.
admits(g, current, neighbour, namespace, releaseName, releaseNodes) ==
    LET n == g.nodes[neighbour]
    IN /\ withinNamespace(n, namespace)
       /\ ~(releaseName # "" /\ n.HelmRelease = "" /\ current \notin releaseNodes)
       /\ ~(releaseName # "" /\ n.HelmRelease # "" /\ n.HelmRelease # releaseName)
       /\ ToLower(n.Kind) \in allowedKinds

\* The loop over the neighbours of current: the nodes newly admitted, in
\* order.
RECURSIVE admitted(_, _, _, _, _, _, _)
admitted(g, current, neighbours, seen, namespace, releaseName, releaseNodes) ==
    IF neighbours = <<>> THEN <<>>
    ELSE LET n == Head(neighbours)
         IN IF n \notin seen
               /\ admits(g, current, n, namespace, releaseName, releaseNodes)
            THEN <<n>> \o admitted(g, current, Tail(neighbours), seen \cup {n},
                                   namespace, releaseName, releaseNodes)
            ELSE admitted(g, current, Tail(neighbours), seen,
                          namespace, releaseName, releaseNodes)

\* The breadth-first loop: the lists `ordered` can end as.
RECURSIVE traverse(_, _, _, _, _, _)
traverse(g, queue, ordered, namespace, releaseName, releaseNodes) ==
    IF queue = <<>> THEN {ordered}
    ELSE UNION {LET new == admitted(g, Head(queue), neighbours, Range(ordered),
                                    namespace, releaseName, releaseNodes)
                IN traverse(g, Tail(queue) \o new, ordered \o new,
                            namespace, releaseName, releaseNodes) :
                   neighbours \in neighboursOf(g, Head(queue))}

expandRelatedNodes(g, base, namespace, releaseName) ==
    IF Len(base) = 0 THEN {base}
    ELSE LET start == withoutRepeats(base, {})
         IN traverse(g, start, start, namespace, releaseName,
                     releaseNodesOf(g, base, releaseName))

\* The PV-by-name maps the fallback can build from GetAllNodes: under one
\* name, the PV the range visited last.
pvByNameMaps(g) ==
    LET pvs == {u \in DOMAIN g.nodes : ToLower(g.nodes[u].Kind) = "persistentvolume"}
        names == {g.nodes[u].Name : u \in pvs}
    IN {f \in [names -> pvs] : \A n \in names : g.nodes[f[n]].Name = n}

\* The PVs of a claim's binds edges alone, without the lookup by name.
boundVolumesByEdgeOnly(g, node, pvByName) ==
    LET binds == {k \in DOMAIN node.OutgoingEdges :
                     node.OutgoingEdges[k].Type = EdgePVCBinding}
    IN {SelectSeq([i \in DOMAIN order |-> node.OutgoingEdges[order[i]].ToUID],
                  LAMBDA u : GetNode(g, u)) :
           order \in Orders(binds)}

\* The PVs one claim adds: those of its binds edges that GetNode finds, in
\* the order of the map range, then the PV named by its volumeName.
boundVolumes(g, node, pvByName) ==
    LET binds == {k \in DOMAIN node.OutgoingEdges :
                     node.OutgoingEdges[k].Type = EdgePVCBinding}
        named == IF node.VolumeName # "" /\ node.VolumeName \in DOMAIN pvByName
                 THEN <<pvByName[node.VolumeName]>> ELSE <<>>
    IN {SelectSeq([i \in DOMAIN order |-> node.OutgoingEdges[order[i]].ToUID],
                  LAMBDA u : GetNode(g, u)) \o named :
           order \in Orders(binds)}

\* The loop of includePersistentVolumes over the nodes it was handed: the
\* lists it can end with.
RECURSIVE includeVolumesOf(_, _, _, _, _)
includeVolumesOf(g, rest, nodes, releaseName, pvByName) ==
    IF rest = <<>> THEN {nodes}
    ELSE LET node == g.nodes[Head(rest)]
         IN IF ToLower(node.Kind) # "persistentvolumeclaim"
               \/ (releaseName # "" /\ node.HelmRelease # releaseName)
            THEN includeVolumesOf(g, Tail(rest), nodes, releaseName, pvByName)
            ELSE UNION {includeVolumesOf(g, Tail(rest),
                                         nodes \o withoutRepeats(pvs, Range(nodes)),
                                         releaseName, pvByName) :
                           pvs \in boundVolumes(g, node, pvByName)}

includePersistentVolumes(g, nodes, releaseName) ==
    IF Len(nodes) = 0 THEN {nodes}
    ELSE UNION {includeVolumesOf(g, nodes, nodes, releaseName, pvByName) :
                   pvByName \in pvByNameMaps(g)}

\* The edges loop of buildGraphResponse for one node, in one order of its
\* outgoing map.
edgesWithin(node, order, nodeMap) ==
    SelectSeq([i \in DOMAIN order |-> node.OutgoingEdges[order[i]]],
              LAMBDA edge : edge.ToUID \in nodeMap)

RECURSIVE edgesOfNodes(_, _, _)
edgesOfNodes(g, nodes, nodeMap) ==
    IF nodes = <<>> THEN {<<>>}
    ELSE {edgesWithin(g.nodes[Head(nodes)], order, nodeMap) \o rest :
             order \in Orders(DOMAIN g.nodes[Head(nodes)].OutgoingEdges),
             rest \in edgesOfNodes(g, Tail(nodes), nodeMap)}

\* Server.buildGraphResponse: the responses for one list of nodes.
buildGraphResponse(g, nodes) ==
    {[Nodes |-> nodes, Edges |-> edges] :
        edges \in edgesOfNodes(g, nodes, Range(nodes))}

\* Server.handleResources: the lists of nodes the response is shaped from.
handleResources(g, releaseName, namespace) ==
    IF releaseName # ""
    THEN includePersistentVolumes(
             g, filterNamespace(g, GetNodesByHelmRelease(g, releaseName), namespace),
             releaseName)
    ELSE UNION {includePersistentVolumes(g, filterNamespace(g, all, namespace), "") :
                   all \in GetAllNodes(g)}

\* The nodes handleGraph selects before it builds the response.
graphNodes(g, releaseName, namespace) ==
    IF releaseName # ""
    THEN UNION {includePersistentVolumes(g, expanded, releaseName) :
                   expanded \in expandRelatedNodes(
                       g, filterNamespace(g, GetNodesByHelmRelease(g, releaseName),
                                          namespace),
                       namespace, releaseName)}
    ELSE UNION {includePersistentVolumes(g, filterNamespace(g, all, namespace), "") :
                   all \in GetAllNodes(g)}

\* Server.handleGraph: the responses it can encode.
handleGraph(g, releaseName, namespace) ==
    UNION {buildGraphResponse(g, nodes) : nodes \in graphNodes(g, releaseName, namespace)}

\* ------------------------------------------------- the objects watched

Release(name) == [x \in {ReleaseAnnotation} |-> name]

AppLabel(value) == [x \in {"app"} |-> value]

\* Deployment D (UID d, release demo) and the same Deployment re-released.
ObjD == Object("d", "Deployment", "web", "n", EmptyMap, Release("demo"), <<>>)

ObjD2 == Object("d", "Deployment", "web", "n", EmptyMap, Release("blue"), <<>>)

\* ReplicaSet R (UID r, owner d), one replica running.
ObjR ==
    [Object("r", "ReplicaSet", "web-1", "n", EmptyMap, EmptyMap, <<"d">>)
        EXCEPT !.Replicas = 1, !.ReadyReplicas = 1]

\* Pod P1 (UID p, owner r, labels {app:x}), mounting the claim "data".
ObjP ==
    [Object("p", "Pod", "web-1-a", "n", AppLabel("x"), EmptyMap, <<"r">>)
        EXCEPT !.Claims = <<"data">>]

\* Pod P2 labelled {app:y}, and the same Pod relabelled {app:x}.
ObjP2y == Object("p2", "Pod", "job-b", "n", AppLabel("y"), EmptyMap, <<>>)

ObjP2x == Object("p2", "Pod", "job-b", "n", AppLabel("x"), EmptyMap, <<>>)

\* The same Pod as an update that carries another namespace.
ObjP2m == Object("p2", "Pod", "job-b", "m", AppLabel("y"), EmptyMap, <<>>)

\* Service S with selector {app:x}.
ObjS ==
    [Object("s", "Service", "web", "n", EmptyMap, EmptyMap, <<>>)
        EXCEPT !.Selector = AppLabel("x")]

\* PVC A (release demo, volumeName vol-1) and PV vol-1 (cluster-scoped).
ObjA ==
    [Object("a", "PersistentVolumeClaim", "data", "n", EmptyMap, Release("demo"), <<>>)
        EXCEPT !.VolumeName = "vol-1"]

ObjV == Object("v", "PersistentVolume", "vol-1", "", EmptyMap, EmptyMap, <<>>)

\* The same PV carrying the annotation of release blue.
ObjVblue == Object("v", "PersistentVolume", "vol-1", "", EmptyMap, Release("blue"), <<>>)

\* PVC B of the same namespace, bound to the same volume: unmanaged, and
\* the same claim as part of release blue.
ObjB ==
    [Object("b", "PersistentVolumeClaim", "cache", "n", EmptyMap, EmptyMap, <<>>)
        EXCEPT !.VolumeName = "vol-1"]

ObjBblue ==
    [Object("b", "PersistentVolumeClaim", "cache", "n", EmptyMap, Release("blue"), <<>>)
        EXCEPT !.VolumeName = "vol-1"]

\* Claim A rebound to volume vol-2, and PV vol-2.
ObjA2 ==
    [Object("a", "PersistentVolumeClaim", "data", "n", EmptyMap, Release("demo"), <<>>)
        EXCEPT !.VolumeName = "vol-2"]

ObjW == Object("w", "PersistentVolume", "vol-2", "", EmptyMap, EmptyMap, <<>>)

\* ReplicaSet R scaled down to nothing.
ObjR0 == Object("r", "ReplicaSet", "web-1", "n", EmptyMap, EmptyMap, <<"d">>)

Objects == {ObjD, ObjD2, ObjR, ObjP, ObjP2y, ObjP2x, ObjP2m, ObjS, ObjA, ObjV}

\* The objects behind the release queries: an ownership chain and claims
\* that share a volume.
QueryObjects ==
    {ObjD, ObjR, ObjP, ObjA, ObjA2, ObjV, ObjVblue, ObjW, ObjB, ObjBblue}

Watched == Objects \cup {ObjVblue, ObjB, ObjBblue, ObjR0}

UIDs == {o.UID : o \in Watched \cup QueryObjects}

Event(eventType, obj) == [type |-> eventType, obj |-> obj]

\* ------------------------------------------------------------ event pump

\* The number of events a run delivers.
MaxEvents == 5

\* What g.nodes[uid] holds, a record without a node when there is none.
NotFound == [UID |-> NoNode]

Lookup(g, uid) == IF uid \in DOMAIN g.nodes THEN g.nodes[uid] ELSE NotFound

\* An empty backend: the node keys, the edge keys, and whether the
\* connection is closed.
NewBackend == [nodes |-> EmptyMap, edges |-> EmptyMap, closed |-> FALSE]

\* NewPersistentGraph with async writes: an empty channel and the writer
\* started.  accepted, executed and dropped record what became of the ops.
NewPersistentGraph ==
    [writeChan |-> <<>>, batch |-> <<>>, writer |-> "running",
     stopChan |-> "open", chanClosed |-> FALSE,
     accepted |-> <<>>, executed |-> <<>>, dropped |-> 0, panicked |-> FALSE]

\* main before it starts its goroutines.
NewRun ==
    [main |-> "created", api |-> "created", manager |-> "created",
     snapshotter |-> "created", persistence |-> FALSE, labelSelector |-> "",
     cluster |-> {}, delivered |-> {}, cancelled |-> FALSE, stopCh |-> "open"]

\* The goroutines that call the store: the informers of two kinds, each
\* running its processor inside its own callbacks, and the HTTP handlers.
Writers == {"pods", "services"}

Readers == {"api"}

Call(op, args) == [op |-> op, args |-> args]

\* A goroutine outside every store call.
Idle == [at |-> "idle", call |-> Call("", <<>>), before |-> NewGraph,
         live |-> FALSE, raced |-> FALSE]

Init ==
    /\ graph = NewGraph
    /\ found = NotFound
    /\ steps = 0
    /\ trace = <<>>
    /\ mu = [writer |-> "", readers |-> {}]
    /\ pc = [t \in Writers \cup Readers |-> Idle]
    /\ backend = NewBackend
    /\ pg = NewPersistentGraph
    /\ run = NewRun

\* Manager.onEvent: the registry runs the processor of the informer's kind,
\* synchronously, inside the watch source's callback.  found is the node the
\* event found under the object's UID, trace the events recorded.
onEvent(obj, eventType, recorded) ==
    /\ steps < MaxEvents
    /\ steps' = steps + 1
    /\ graph' \in RegistryProcess(graph, obj, obj.Kind, eventType)
    /\ found' = Lookup(graph, obj.UID)
    /\ trace' = recorded
    /\ UNCHANGED <<mu, pc, around>>

OnAdd == \E obj \in Objects : onEvent(obj, EventAdd, <<Event(EventAdd, obj)>>)

OnUpdate == \E obj \in Objects : onEvent(obj, EventUpdate, <<Event(EventUpdate, obj)>>)

OnDelete == \E obj \in Objects : onEvent(obj, EventDelete, <<Event(EventDelete, obj)>>)

Next == OnAdd \/ OnUpdate \/ OnDelete

\* Events in any order, each recorded as the last one processed.
Spec == Init /\ [][Next]_vars

\* The same pump over the objects behind the release queries.
QueryAdd ==
    \E obj \in QueryObjects : onEvent(obj, EventAdd, <<Event(EventAdd, obj)>>)

QueryUpdate ==
    \E obj \in QueryObjects : onEvent(obj, EventUpdate, <<Event(EventUpdate, obj)>>)

QueryDelete ==
    \E obj \in QueryObjects : onEvent(obj, EventDelete, <<Event(EventDelete, obj)>>)

QueryNext == QueryAdd \/ QueryUpdate \/ QueryDelete

QuerySpec == Init /\ [][QueryNext]_vars

\* ------------------------------------------------ a fresh start, recorded

\* The number of events of a recorded run.
MaxTrace == 4

Observed == {trace[i].obj.UID : i \in DOMAIN trace}

\* A fresh process against a cluster where nothing is deleted: the watch
\* source hands over each object first as an ADD and afterwards as UPDATEs,
\* and the whole history is recorded.
FirstAdd ==
    /\ Len(trace) < MaxTrace
    /\ \E obj \in Watched :
          /\ obj.UID \notin Observed
          /\ onEvent(obj, EventAdd, Append(trace, Event(EventAdd, obj)))

LaterUpdate ==
    /\ Len(trace) < MaxTrace
    /\ \E obj \in Watched :
          /\ obj.UID \in Observed
          /\ onEvent(obj, EventUpdate, Append(trace, Event(EventUpdate, obj)))

ScenarioNext == FirstAdd \/ LaterUpdate

ScenarioSpec == Init /\ [][ScenarioNext]_vars

\* ------------------------------------------- the store, called directly

\* The number of store calls of a run.
MaxOps == 4

StoreObjects == {ObjA, ObjV}

StoreUIDs == {o.UID : o \in StoreObjects}

StoreEdgeTypes == {EdgeOwnership, EdgePVCBinding}

\* Refs to the two objects, each under two group/versions.
StoreRefs ==
    {RefKey(gv, o.Kind, o.Namespace, o.Name) :
        gv \in {"v1", "storage.k8s.io/v1"}, o \in StoreObjects}

called(op, args, uid) ==
    /\ steps < MaxOps
    /\ steps' = steps + 1
    /\ found' = Lookup(graph, uid)
    /\ trace' = <<Call(op, args)>>
    /\ UNCHANGED <<mu, pc, around>>

StoreAddNode ==
    \E obj \in StoreObjects :
        /\ graph' \in AddNode(graph, NewNodeFromObject(obj, obj.Kind, "v1"))
        /\ called("AddNode", <<obj>>, obj.UID)

StoreRemoveNode ==
    \E uid \in StoreUIDs :
        /\ graph' = RemoveNode(graph, uid)
        /\ called("RemoveNode", <<uid>>, uid)

StoreAddEdge ==
    \E type \in StoreEdgeTypes, from \in StoreUIDs, to \in StoreUIDs :
        /\ graph' = AddEdge(graph, Edge(type, from, to))
        /\ called("AddEdge", <<type, from, to>>, from)

StoreRemoveEdge ==
    \E from \in StoreUIDs, to \in StoreUIDs :
        /\ graph' = RemoveEdge(graph, from, to)
        /\ called("RemoveEdge", <<from, to>>, from)

StoreAddPendingEdge ==
    \E from \in StoreUIDs, ref \in StoreRefs, type \in StoreEdgeTypes :
        /\ GetNode(graph, from)
        /\ graph' = AddPendingEdge(graph, from, ref, type)
        /\ called("AddPendingEdge", <<from, ref, type>>, from)

StoreAddReversePendingEdge ==
    \E to \in StoreUIDs, ref \in StoreRefs, type \in StoreEdgeTypes :
        /\ GetNode(graph, to)
        /\ graph' = AddReversePendingEdge(graph, to, ref, type)
        /\ called("AddReversePendingEdge", <<to, ref, type>>, to)

StoreNext ==
    \/ StoreAddNode
    \/ StoreRemoveNode
    \/ StoreAddEdge
    \/ StoreRemoveEdge
    \/ StoreAddPendingEdge
    \/ StoreAddReversePendingEdge

\* Any client of GraphInterface, calling the store's operations in any order;
\* a pending edge is registered by a client that holds its known endpoint.
StoreSpec == Init /\ [][StoreNext]_vars

\* --------------------------------------- the store, called concurrently
\* Each store call is Lock, its writes in two steps, Unlock; a query is
\* RLock, then the read and RUnlock; the handler then ranges over the
\* adjacency maps of the node it was handed, outside the lock.

\* The number of store calls of a run.
MaxCalls == 4

LockedObjects == {ObjA, ObjV}

LockedUIDs == {o.UID : o \in LockedObjects}

\* A ref to the volume, as a claim names it, and one to the claim.
LockedTargetRef == RefKey("v1", ObjV.Kind, ObjV.Namespace, ObjV.Name)

LockedSourceRef == RefKey("v1", ObjA.Kind, ObjA.Namespace, ObjA.Name)

\* A Lock that does not wait for the holders of the mutex.
lockWithoutWaiting(m) == TRUE

\* sync.RWMutex: Lock returns once no goroutine holds the mutex, RLock once
\* no writer holds it.
mayLock(m) == m.writer = "" /\ m.readers = {}

mayRLock(m) == m.writer = ""

\* The writes of a mutation up to its middle: AddNode has replaced the map
\* entry, RemoveNode has unlinked the peers, AddEdge and RemoveEdge have
\* written the source's map, the registrations have appended.
firstWrites(g, call) ==
    CASE call.op = "AddNode" ->
            LET node == call.args[1]
                g1 == IF node.UID \in DOMAIN g.nodes
                      THEN removeFromIndexes(g, g.nodes[node.UID]) ELSE g
            IN [g1 EXCEPT !.nodes = MapPut(@, node.UID, node)]
      [] call.op = "RemoveNode" ->
            LET uid == call.args[1]
            IN IF uid \notin DOMAIN g.nodes THEN g
               ELSE LET node == g.nodes[uid]
                        targets == {node.OutgoingEdges[k].ToUID :
                                       k \in DOMAIN node.OutgoingEdges}
                        sources == {node.IncomingEdges[k].FromUID :
                                       k \in DOMAIN node.IncomingEdges}
                    IN [g EXCEPT !.nodes =
                          [u \in DOMAIN g.nodes |->
                             [g.nodes[u] EXCEPT
                                !.IncomingEdges =
                                    IF u \in targets THEN MapDelete(@, uid) ELSE @,
                                !.OutgoingEdges =
                                    IF u \in sources THEN MapDelete(@, uid) ELSE @]]]
      [] call.op = "AddEdge" ->
            LET edge == call.args[1]
            IN IF ~AddEdgeOK(g, edge) THEN g
               ELSE [g EXCEPT !.nodes[edge.FromUID].OutgoingEdges =
                                  MapPut(@, edge.ToUID, edge)]
      [] call.op = "RemoveEdge" ->
            IF call.args[1] \in DOMAIN g.nodes
            THEN [g EXCEPT !.nodes[call.args[1]].OutgoingEdges =
                               MapDelete(@, call.args[2])]
            ELSE g
      [] call.op = "AddPendingEdge" ->
            AddPendingEdge(g, call.args[1], call.args[2], call.args[3])
      [] call.op = "AddReversePendingEdge" ->
            AddReversePendingEdge(g, call.args[1], call.args[2], call.args[3])

\* The rest of the mutation, from what it found when it took the lock: the
\* graphs it can leave behind.
lastWrites(g, call, before) ==
    CASE call.op = "AddNode" ->
            LET node == call.args[1]
                g3 == addToIndexes(g, node)
            IN IF node.UID \notin DOMAIN before.nodes
               THEN processPendingEdgesForNode(g3, node) ELSE {g3}
      [] call.op = "RemoveNode" ->
            LET uid == call.args[1]
            IN IF uid \notin DOMAIN before.nodes \/ uid \notin DOMAIN g.nodes
               THEN {g}
               ELSE {[removeFromIndexes(g, g.nodes[uid]) EXCEPT
                         !.nodes = MapDelete(@, uid)]}
      [] call.op = "AddEdge" ->
            LET edge == call.args[1]
            IN IF ~AddEdgeOK(before, edge) \/ edge.ToUID \notin DOMAIN g.nodes
               THEN {g}
               ELSE {[g EXCEPT !.nodes[edge.ToUID].IncomingEdges =
                                   MapPut(@, edge.FromUID, edge)]}
      [] call.op = "RemoveEdge" ->
            IF call.args[2] \in DOMAIN g.nodes
            THEN {[g EXCEPT !.nodes[call.args[2]].IncomingEdges =
                                MapDelete(@, call.args[1])]}
            ELSE {g}
      [] OTHER -> {g}

\* The nodes both graphs hold whose adjacency maps the step has written;
\* the node AddNode stores is a new object, not a write to the old one.
written(g, g2, call) ==
    {u \in DOMAIN g.nodes \cap DOMAIN g2.nodes :
        /\ ~(call.op = "AddNode" /\ call.args[1].UID = u)
        /\ \/ g.nodes[u].OutgoingEdges # g2.nodes[u].OutgoingEdges
           \/ g.nodes[u].IncomingEdges # g2.nodes[u].IncomingEdges}

\* What a write step does to the handlers: one that holds the node AddNode
\* replaces is left with the old object; one that is ranging over a map the
\* step writes has raced with it.
overtaken(g, g2, call) ==
    [t \in Readers |->
        IF pc[t].at \in {"holding", "ranging"}
        THEN [pc[t] EXCEPT
                 !.live = @ /\ ~(call.op = "AddNode"
                                 /\ call.args[1].UID = pc[t].call.args[1]),
                 !.raced = \/ @
                           \/ /\ pc[t].at = "ranging"
                              /\ pc[t].live
                              /\ pc[t].call.args[1] \in written(g, g2, call)]
        ELSE pc[t]]

\* g.mu.Lock() at the head of a mutation.
locks(t, call) ==
    /\ pc[t].at = "idle"
    /\ steps < MaxCalls
    /\ mayLock(mu)
    /\ mu' = [mu EXCEPT !.writer = t]
    /\ pc' = [pc EXCEPT ![t] = [Idle EXCEPT !.at = "locked", !.call = call,
                                             !.before = graph]]
    /\ steps' = steps + 1
    /\ UNCHANGED <<graph, found, trace, around>>

LockedAddNode ==
    \E t \in Writers, obj \in LockedObjects :
       locks(t, Call("AddNode", <<NewNodeFromObject(obj, obj.Kind, "v1")>>))

LockedRemoveNode ==
    \E t \in Writers, uid \in LockedUIDs : locks(t, Call("RemoveNode", <<uid>>))

LockedAddEdge ==
    \E t \in Writers, from \in LockedUIDs, to \in LockedUIDs :
       locks(t, Call("AddEdge", <<Edge(EdgePVCBinding, from, to)>>))

LockedRemoveEdge ==
    \E t \in Writers, from \in LockedUIDs, to \in LockedUIDs :
       locks(t, Call("RemoveEdge", <<from, to>>))

LockedAddPendingEdge ==
    \E t \in Writers :
       locks(t, Call("AddPendingEdge",
                     <<ObjA.UID, LockedTargetRef, EdgePVCBinding>>))

LockedAddReversePendingEdge ==
    \E t \in Writers :
       locks(t, Call("AddReversePendingEdge",
                     <<ObjV.UID, LockedSourceRef, EdgePVCBinding>>))

\* The first writes of the mutation a goroutine is in.
WritesFirst ==
    \E t \in Writers :
       /\ pc[t].at = "locked"
       /\ graph' = firstWrites(graph, pc[t].call)
       /\ pc' = [u \in DOMAIN pc |->
                    IF u = t THEN [pc[t] EXCEPT !.at = "half"]
                    ELSE IF u \in Readers
                         THEN overtaken(graph, graph', pc[t].call)[u]
                         ELSE pc[u]]
       /\ UNCHANGED <<found, trace, steps, mu, around>>

\* Its remaining writes.
WritesRest ==
    \E t \in Writers :
       /\ pc[t].at = "half"
       /\ graph' \in lastWrites(graph, pc[t].call, pc[t].before)
       /\ pc' = [u \in DOMAIN pc |->
                    IF u = t THEN [pc[t] EXCEPT !.at = "done"]
                    ELSE IF u \in Readers
                         THEN overtaken(graph, graph', pc[t].call)[u]
                         ELSE pc[u]]
       /\ UNCHANGED <<found, trace, steps, mu, around>>

\* The deferred g.mu.Unlock().
Unlocks ==
    \E t \in Writers :
       /\ pc[t].at = "done"
       /\ mu' = [mu EXCEPT !.writer = IF @ = t THEN "" ELSE @]
       /\ pc' = [pc EXCEPT ![t] = Idle]
       /\ trace' = <<pc[t].call>>
       /\ UNCHANGED <<graph, found, steps, around>>

\* Graph.GetNode: g.mu.RLock() ...
RLocks ==
    \E t \in Readers, uid \in LockedUIDs :
       /\ pc[t].at = "idle"
       /\ steps < MaxCalls
       /\ mayRLock(mu)
       /\ mu' = [mu EXCEPT !.readers = @ \cup {t}]
       /\ pc' = [pc EXCEPT ![t] = [Idle EXCEPT !.at = "rlocked",
                                                !.call = Call("GetNode", <<uid>>)]]
       /\ steps' = steps + 1
       /\ UNCHANGED <<graph, found, trace, around>>

\* ... the lookup, and the deferred RUnlock: the caller is handed the node
\* itself.
ReturnsNode ==
    \E t \in Readers :
       /\ pc[t].at = "rlocked"
       /\ found' = Lookup(graph, pc[t].call.args[1])
       /\ mu' = [mu EXCEPT !.readers = @ \ {t}]
       /\ pc' = [pc EXCEPT ![t] =
                    IF GetNode(graph, pc[t].call.args[1])
                    THEN [pc[t] EXCEPT !.at = "holding", !.live = TRUE]
                    ELSE Idle]
       /\ UNCHANGED <<graph, trace, steps, around>>

\* The handler starts to range over the node's OutgoingEdges and
\* IncomingEdges.
Ranges ==
    \E t \in Readers :
       /\ pc[t].at = "holding"
       /\ pc' = [pc EXCEPT ![t].at = "ranging"]
       /\ UNCHANGED <<graph, found, trace, steps, mu, around>>

\* The runtime's report of a map written while it is ranged over.
Crashed == [UID |-> "fatal error: concurrent map iteration and map write"]

\* The range ends with the object the handler holds: the node of the graph
\* or, once replaced or removed, the node as it was handed over.  After a
\* write to the maps it went over, the build decides: the runtime's fatal
\* error, or the maps as they were or as they are.
Ranged ==
    \E t \in Readers :
       /\ pc[t].at = "ranging"
       /\ LET uid == pc[t].call.args[1]
              held == IF pc[t].live /\ GetNode(graph, uid)
                      THEN graph.nodes[uid] ELSE found
          IN found' \in {held} \cup (IF pc[t].raced THEN {Crashed, found} ELSE {})
       /\ pc' = [pc EXCEPT ![t] = Idle]
       /\ UNCHANGED <<graph, trace, steps, mu, around>>

LockedNext ==
    \/ LockedAddNode
    \/ LockedRemoveNode
    \/ LockedAddEdge
    \/ LockedRemoveEdge
    \/ LockedAddPendingEdge
    \/ LockedAddReversePendingEdge
    \/ WritesFirst
    \/ WritesRest
    \/ Unlocks
    \/ RLocks
    \/ ReturnsNode
    \/ Ranges
    \/ Ranged

LockedSpec == Init /\ [][LockedNext]_vars

\* ----------------------------------------------------------- persistence

\* The capacity of the write channel, 1000 in NewPersistentGraph, scaled.
writeChanCap == 1

\* The batch size of the async writer, 100 in startAsyncWriter, scaled.
batchSize == 2

\* The number of calls on the PersistentGraph of a run.
MaxWrites == 3

PersistObjects == {ObjD, ObjR}

PersistUIDs == {o.UID : o \in PersistObjects}

\* The edge the callers add between the two nodes.
PersistEdge == Edge(EdgeOwnership, "r", "d")

\* A writeOp; the fields an opType does not use are left zero.
writeOp(opType, node, uid, toUID, edge) ==
    [opType |-> opType, node |-> node, uid |-> uid, toUID |-> toUID, edge |-> edge]

saveNodeOp(node) == writeOp("saveNode", node, "", "", <<>>)

deleteNodeOp(uid) == writeOp("deleteNode", <<>>, uid, "", <<>>)

saveEdgeOp(edge) == writeOp("saveEdge", <<>>, "", "", edge)

deleteEdgeOp(fromUID, toUID) == writeOp("deleteEdge", <<>>, fromUID, toUID, <<>>)

\* RedisStore.SaveNode: the node under its UID, serialized without edges.
SaveNode(b, node) ==
    [b EXCEPT !.nodes = MapPut(@, node.UID, Attributes(node))]

\* deleteNodeEdges: the edge keys uid:* and *:uid go.
deleteNodeEdges(edges, uid) ==
    [k \in {e \in DOMAIN edges : e[1] # uid /\ e[2] # uid} |-> edges[k]]

\* RedisStore.DeleteNode: nothing at all when the node key is absent.
DeleteNode(b, uid) ==
    IF uid \notin DOMAIN b.nodes THEN b
    ELSE [b EXCEPT !.nodes = MapDelete(@, uid),
                   !.edges = deleteNodeEdges(@, uid)]

\* RedisStore.SaveEdge: the edge under the key from:to.
SaveEdge(b, edge) ==
    [b EXCEPT !.edges = MapPut(@, <<edge.FromUID, edge.ToUID>>, edge)]

DeleteEdge(b, fromUID, toUID) ==
    [b EXCEPT !.edges = MapDelete(@, <<fromUID, toUID>>)]

RECURSIVE saveNodes(_, _, _)
saveNodes(b, g, order) ==
    IF order = <<>> THEN b
    ELSE saveNodes(SaveNode(b, g.nodes[Head(order)]), g, Tail(order))

RECURSIVE saveEdges(_, _, _)
saveEdges(b, node, order) ==
    IF order = <<>> THEN b
    ELSE saveEdges(SaveEdge(b, node.OutgoingEdges[Head(order)]), node, Tail(order))

RECURSIVE saveEdgesOfNodes(_, _, _)
saveEdgesOfNodes(b, g, order) ==
    IF order = <<>> THEN b
    ELSE LET node == g.nodes[Head(order)]
             keys == CHOOSE s \in Orders(DOMAIN node.OutgoingEdges) : TRUE
         IN saveEdgesOfNodes(saveEdges(b, node, keys), g, Tail(order))

\* RedisStore.SaveGraph: SaveNode on every node of the graph, then SaveEdge
\* on every entry of every node's outgoing map.  Every write has a key of
\* its own, so the order of GetAllNodes does not show in the result.
SaveGraph(b, g) ==
    LET order == CHOOSE s \in GetAllNodes(g) : TRUE
    IN saveEdgesOfNodes(saveNodes(b, g, order), g, order)

RECURSIVE addNodes(_, _, _)
addNodes(gs, b, order) ==
    IF order = <<>> THEN gs
    ELSE addNodes(UNION {AddNode(g, b.nodes[Head(order)]) : g \in gs}, b, Tail(order))

RECURSIVE addEdges(_, _, _)
addEdges(g, b, order) ==
    IF order = <<>> THEN g
    ELSE addEdges(AddEdge(g, b.edges[Head(order)]), b, Tail(order))

\* A load that replays the edges before the nodes they join.
LoadGraphEdgesFirst(b) ==
    UNION {addNodes({addEdges(NewGraph, b, edgeOrder)}, b, nodeOrder) :
              edgeOrder \in Orders(DOMAIN b.edges), nodeOrder \in Orders(DOMAIN b.nodes)}

\* RedisStore.LoadGraph: a new graph, AddNode on every node the scan yields
\* (empty adjacency maps, see GetNode), then AddEdge on every edge; an edge
\* with an endpoint that is not there is refused without a word.
LoadGraph(b) ==
    UNION {{addEdges(g, b, edgeOrder) : edgeOrder \in Orders(DOMAIN b.edges)} :
              g \in UNION {addNodes({NewGraph}, b, nodeOrder) :
                              nodeOrder \in Orders(DOMAIN b.nodes)}}

\* executeWriteOp.
executeWriteOp(b, op) ==
    CASE op.opType = "saveNode" -> SaveNode(b, op.node)
      [] op.opType = "deleteNode" -> DeleteNode(b, op.uid)
      [] op.opType = "saveEdge" -> SaveEdge(b, op.edge)
      [] op.opType = "deleteEdge" -> DeleteEdge(b, op.uid, op.toUID)

RECURSIVE executeBatch(_, _)
executeBatch(b, batch) ==
    IF batch = <<>> THEN b
    ELSE executeBatch(executeWriteOp(b, Head(batch)), Tail(batch))

\* A send that waits for room in the channel: no outcome while it is full.
sendWaiting(p, op) ==
    IF p.chanClosed THEN {[p EXCEPT !.panicked = TRUE]}
    ELSE IF Len(p.writeChan) < writeChanCap
         THEN {[p EXCEPT !.writeChan = Append(@, op), !.accepted = Append(@, op)]}
         ELSE {}

\* select { case pg.writeChan <- op: default: }: the op enters the channel
\* when there is room and is dropped with a warning when there is not; a
\* send on the channel Close has closed panics.
send(p, op) ==
    IF p.chanClosed THEN {[p EXCEPT !.panicked = TRUE]}
    ELSE IF Len(p.writeChan) < writeChanCap
         THEN {[p EXCEPT !.writeChan = Append(@, op), !.accepted = Append(@, op)]}
         ELSE {[p EXCEPT !.dropped = @ + 1]}

\* One call on the PersistentGraph has returned.
persisted(op, args, ops) ==
    /\ ~pg.panicked
    /\ steps < MaxWrites
    /\ steps' = steps + 1
    /\ trace' = <<Call(op, args)>>
    /\ pg' \in IF ops = <<>> THEN {pg} ELSE send(pg, ops[1])
    /\ UNCHANGED <<found, mu, pc, backend, run>>

\* PersistentGraph.AddNode.
PersistAddNode ==
    \E obj \in PersistObjects :
        /\ graph' \in AddNode(graph, NodeOf(obj))
        /\ persisted("AddNode", <<NodeOf(obj)>>, <<saveNodeOp(NodeOf(obj))>>)

\* PersistentGraph.RemoveNode.
PersistRemoveNode ==
    \E uid \in PersistUIDs :
        /\ graph' = RemoveNode(graph, uid)
        /\ persisted("RemoveNode", <<uid>>, <<deleteNodeOp(uid)>>)

\* An AddEdge that sends its op whatever the store returned.
PersistAddEdgeAlwaysSends ==
    /\ graph' = AddEdge(graph, PersistEdge)
    /\ persisted("AddEdge", <<PersistEdge>>, <<saveEdgeOp(PersistEdge)>>)

\* PersistentGraph.AddEdge: nothing is sent when the store refuses the edge.
PersistAddEdge ==
    /\ graph' = AddEdge(graph, PersistEdge)
    /\ persisted("AddEdge", <<PersistEdge>>,
                 IF AddEdgeOK(graph, PersistEdge) THEN <<saveEdgeOp(PersistEdge)>> ELSE <<>>)

\* PersistentGraph.RemoveEdge.
PersistRemoveEdge ==
    /\ graph' = RemoveEdge(graph, PersistEdge.FromUID, PersistEdge.ToUID)
    /\ persisted("RemoveEdge", <<PersistEdge.FromUID, PersistEdge.ToUID>>,
                 <<deleteEdgeOp(PersistEdge.FromUID, PersistEdge.ToUID)>>)

\* PersistentGraph.Snapshot, from the ticker of main or at shutdown.
Snapshot ==
    /\ ~pg.panicked
    /\ ~backend.closed
    /\ backend' = SaveGraph(backend, graph)
    /\ trace' = <<Call("Snapshot", <<>>)>>
    /\ UNCHANGED <<graph, found, steps, mu, pc, pg, run>>

\* What the writer goroutine does with a batch: executeBatch.
flushed(p, b) ==
    /\ backend' = executeBatch(b, p.batch)
    /\ pg' = [p EXCEPT !.batch = <<>>, !.executed = @ \o p.batch]

\* case op := <-pg.writeChan: the op joins the batch, which is executed once
\* it holds batchSize ops.
WriterReceives ==
    /\ ~pg.panicked
    /\ pg.writer = "running"
    /\ pg.writeChan # <<>>
    /\ LET p == [pg EXCEPT !.batch = Append(@, Head(pg.writeChan)),
                           !.writeChan = Tail(@)]
       IN IF Len(p.batch) >= batchSize
          THEN flushed(p, backend)
          ELSE pg' = p /\ backend' = backend
    /\ UNCHANGED <<graph, found, trace, steps, mu, pc, run>>

\* case <-ticker.C: the periodic flush of a batch that holds something.
WriterTicks ==
    /\ ~pg.panicked
    /\ pg.writer = "running"
    /\ pg.batch # <<>>
    /\ flushed(pg, backend)
    /\ UNCHANGED <<graph, found, trace, steps, mu, pc, run>>

\* A writer that returns on the stop signal with its batch unexecuted.
WriterStopsWithoutFlush ==
    /\ ~pg.panicked
    /\ pg.writer = "running"
    /\ pg.stopChan = "closed"
    /\ pg' = [pg EXCEPT !.batch = <<>>, !.writer = "stopped"]
    /\ UNCHANGED <<graph, found, trace, steps, mu, pc, backend, run>>

\* case <-pg.stopChan: the final flush, and the goroutine returns.
WriterStops ==
    /\ ~pg.panicked
    /\ pg.writer = "running"
    /\ pg.stopChan = "closed"
    /\ backend' = executeBatch(backend, pg.batch)
    /\ pg' = [pg EXCEPT !.batch = <<>>, !.executed = @ \o pg.batch,
                        !.writer = "stopped"]
    /\ UNCHANGED <<graph, found, trace, steps, mu, pc, run>>

\* Close: close(pg.stopChan), and the caller waits in pg.wg.Wait().
CloseStops ==
    /\ ~pg.panicked
    /\ pg.stopChan = "open"
    /\ pg' = [pg EXCEPT !.stopChan = "closed"]
    /\ trace' = <<Call("Close", <<>>)>>
    /\ UNCHANGED <<graph, found, steps, mu, pc, backend, run>>

\* Close after the writer returned: close(pg.writeChan) and executeWriteOp
\* on whatever the channel still holds.
CloseDrains ==
    /\ ~pg.panicked
    /\ pg.writer = "stopped"
    /\ ~pg.chanClosed
    /\ backend' = executeBatch(backend, pg.writeChan)
    /\ pg' = [pg EXCEPT !.chanClosed = TRUE, !.writeChan = <<>>,
                        !.executed = @ \o pg.writeChan]
    /\ UNCHANGED <<graph, found, trace, steps, mu, pc, run>>

\* Close returns pg.backend.Close().
CloseBackend ==
    /\ ~pg.panicked
    /\ pg.chanClosed
    /\ ~backend.closed
    /\ backend' = [backend EXCEPT !.closed = TRUE]
    /\ UNCHANGED <<graph, found, trace, steps, mu, pc, pg, run>>

\* The next run of the program over the same backend: NewRedisStore,
\* NewPersistentGraph and LoadFromBackend, which replaces the graph by the
\* one LoadGraph built.
LoadFromBackend ==
    /\ backend.closed \/ pg.panicked
    /\ backend' = [backend EXCEPT !.closed = FALSE]
    /\ pg' = NewPersistentGraph
    /\ graph' \in LoadGraph(backend)
    /\ trace' = <<Call("LoadFromBackend", <<>>)>>
    /\ UNCHANGED <<found, steps, mu, pc, run>>

PersistNext ==
    \/ PersistAddNode
    \/ PersistRemoveNode
    \/ PersistAddEdge
    \/ PersistRemoveEdge
    \/ Snapshot
    \/ WriterReceives
    \/ WriterTicks
    \/ WriterStops
    \/ CloseStops
    \/ CloseDrains
    \/ CloseBackend
    \/ LoadFromBackend

PersistSpec == Init /\ [][PersistNext]_vars

\* ------------------------------------------------------------- event pump

\* registerInformers: the kind each informer is registered under and the API
\* group/version of the objects the informer hands to its handlers.
registerInformers ==
    {<<"Pod", "v1">>, <<"Service", "v1">>, <<"ServiceAccount", "v1">>,
     <<"ConfigMap", "v1">>, <<"Secret", "v1">>,
     <<"PersistentVolumeClaim", "v1">>, <<"Namespace", "v1">>,
     <<"PersistentVolume", "v1">>, <<"StorageClass", "storage.k8s.io/v1">>,
     <<"HorizontalPodAutoscaler", "autoscaling/v1">>,
     <<"PodDisruptionBudget", "policy/v1">>,
     <<"Deployment", "apps/v1">>, <<"StatefulSet", "apps/v1">>,
     <<"DaemonSet", "apps/v1">>, <<"ReplicaSet", "apps/v1">>,
     <<"Job", "batch/v1">>, <<"CronJob", "batch/v1">>,
     <<"Ingress", "networking.k8s.io/v1">>,
     <<"EndpointSlice", "discovery.k8s.io/v1">>}

\* registerProcessors: the kind each processor is registered under and the
\* API group/version of the type its Process asserts.
registerProcessors ==
    {<<"Pod", "v1">>, <<"Service", "v1">>, <<"ServiceAccount", "v1">>,
     <<"ConfigMap", "v1">>, <<"Secret", "v1">>,
     <<"PersistentVolumeClaim", "v1">>, <<"PersistentVolume", "v1">>,
     <<"Namespace", "v1">>,
     <<"Deployment", "apps/v1">>, <<"StatefulSet", "apps/v1">>,
     <<"DaemonSet", "apps/v1">>, <<"ReplicaSet", "apps/v1">>,
     <<"Job", "batch/v1">>, <<"CronJob", "batch/v1">>,
     <<"Ingress", "networking.k8s.io/v1">>,
     <<"EndpointSlice", "discovery.k8s.io/v1">>,
     <<"StorageClass", "storage.k8s.io/v1">>,
     <<"HorizontalPodAutoscaler", "autoscaling/v2">>,
     <<"PodDisruptionBudget", "policy/v1">>}

WatchedKinds == {r[1] : r \in registerInformers}

\* The kinds that live outside every namespace.
ClusterScoped == {"PersistentVolume", "StorageClass", "Namespace"}

\* The label selector of the README's example, and its label.
HelmSelector == "app.kubernetes.io/managed-by=Helm"

HelmLabels == [x \in {"app.kubernetes.io/managed-by"} |-> "Helm"]

\* An object of the cluster: one of each kind with the Helm label and one
\* without, no owner and no reference to another object.
ClusterObject(kind, labels) ==
    [Object(IF labels = EmptyMap THEN kind ELSE kind \o "-helm", kind,
            IF labels = EmptyMap THEN "plain" ELSE "helm",
            IF kind \in ClusterScoped THEN "" ELSE "n",
            labels, EmptyMap, <<>>)
        EXCEPT !.Replicas = 1, !.ReadyReplicas = 1]

ClusterObjects ==
    {ClusterObject(kind, labels) : kind \in WatchedKinds, labels \in {EmptyMap, HelmLabels}}

\* options.LabelSelector of the list and watch calls: the objects the API
\* server sends to an informer of the factory.
selects(labelSelector, labels) ==
    \/ labelSelector = ""
    \/ /\ labelSelector = HelmSelector
       /\ LabelGet(labels, "app.kubernetes.io/managed-by") = "Helm"

\* The objects the informer of the object's kind receives: NewManager builds
\* one factory, and its tweak puts the selector on every informer.
listed(m, obj) == selects(m.labelSelector, obj.Labels)

\* The processors of the other kinds: the node and its ownership edges, and
\* for a Namespace the node alone (the other edges they add come from
\* references the objects here do not carry).
plainProcess(g, obj, kind, apiVersion, eventType) ==
    IF eventType = EventDelete THEN {handleDelete(g, obj)}
    ELSE LET node == NewNodeFromObject(obj, kind, apiVersion)
         IN IF kind = "Namespace" THEN AddNode(g, node)
            ELSE {createOwnershipEdges(g1, node, obj.OwnerReferences) :
                     g1 \in AddNode(g, node)}

\* An assertion that lets every object through, registered or not.
assertedAlways(processors, kind, apiVersion) == TRUE

\* The type assertion at the head of every Process.
asserted(processors, kind, apiVersion) == <<kind, apiVersion>> \in processors

\* ProcessorRegistry.Process on what an informer delivers: no processor or a
\* failed assertion is logged and the event is gone.
Process(g, obj, kind, apiVersion, eventType) ==
    IF ~asserted(registerProcessors, kind, apiVersion) THEN {g}
    ELSE IF kind \in {"Pod", "Service", "PersistentVolumeClaim",
                      "PersistentVolume", "Deployment", "ReplicaSet"}
         THEN RegistryProcess(g, obj, kind, eventType)
         ELSE IF kind = "EndpointSlice" THEN EndpointSliceProcess(g, obj, eventType)
         ELSE IF kind = "StorageClass" THEN StorageClassProcess(g, obj, eventType)
         ELSE plainProcess(g, obj, kind, apiVersion, eventType)

\* The group/version of the objects the kind's informer delivers.
informerVersion(kind) == (CHOOSE r \in registerInformers : r[1] = kind)[2]

\* The goroutines of the process run: main has not returned, nothing
\* panicked.
Alive == run.main # "done" /\ ~pg.panicked

\* main up to NewServer: the flags, the graph (persistent or not) and
\* NewManager; the cluster is what the API server holds.
Configures(selectors, clusters, persistence) ==
    /\ run.main = "created"
    /\ \E labelSelector \in selectors, cluster \in clusters :
          run' = [run EXCEPT !.main = "configured",
                             !.labelSelector = labelSelector,
                             !.cluster = cluster,
                             !.persistence = persistence]
    /\ UNCHANGED <<graph, found, trace, steps, mu, pc, backend, pg>>

\* go func() { apiServer.Start() }().
GoAPI ==
    /\ run.main = "configured"
    /\ run' = [run EXCEPT !.main = "apiGo", !.api = "starting"]
    /\ UNCHANGED <<graph, found, trace, steps, mu, pc, backend, pg>>

\* go func() { manager.Start(ctx) }(), and the snapshot goroutine.
GoManager ==
    /\ run.main = "apiGo"
    /\ run' = [run EXCEPT !.main = "running", !.manager = "starting",
                          !.snapshotter = IF run.persistence THEN "running" ELSE @]
    /\ UNCHANGED <<graph, found, trace, steps, mu, pc, backend, pg>>

\* Server.Start: ListenAndServe serves.
APIServes ==
    /\ Alive
    /\ run.api = "starting"
    /\ run' = [run EXCEPT !.api = "serving"]
    /\ UNCHANGED <<graph, found, trace, steps, mu, pc, backend, pg>>

\* Manager.Start: registerInformers.
ManagerRegisters ==
    /\ Alive
    /\ run.manager = "starting"
    /\ run' = [run EXCEPT !.manager = "registered"]
    /\ UNCHANGED <<graph, found, trace, steps, mu, pc, backend, pg>>

\* Manager.Start: m.factory.Start(m.stopCh), and the wait for the caches.
ManagerStartsFactory ==
    /\ Alive
    /\ run.manager = "registered"
    /\ run' = [run EXCEPT !.manager = "started"]
    /\ UNCHANGED <<graph, found, trace, steps, mu, pc, backend, pg>>

\* An informer hands the ADD of an object it received to Manager.onEvent;
\* with persistence the node the processor adds is sent to the writer.
Delivers ==
    /\ Alive
    /\ run.manager \in {"started", "synced"}
    /\ run.stopCh = "open"
    /\ \E obj \in run.cluster \ run.delivered :
          LET apiVersion == informerVersion(obj.Kind)
              accepted == asserted(registerProcessors, obj.Kind, apiVersion)
          IN /\ listed(run, obj)
             /\ graph' \in Process(graph, obj, obj.Kind, apiVersion, EventAdd)
             /\ pg' \in IF run.persistence /\ accepted
                        THEN send(pg, saveNodeOp(NewNodeFromObject(obj, obj.Kind, apiVersion)))
                        ELSE {pg}
             /\ run' = [run EXCEPT !.delivered = @ \cup {obj}]
             /\ trace' = <<Event(EventAdd, obj)>>
    /\ UNCHANGED <<found, steps, mu, pc, backend>>

\* waitForCacheSync returns true: every informer has handed on its list.
CacheSyncs ==
    /\ Alive
    /\ run.manager = "started"
    /\ \A obj \in run.cluster : listed(run, obj) => obj \in run.delivered
    /\ run' = [run EXCEPT !.manager = "synced"]
    /\ UNCHANGED <<graph, found, trace, steps, mu, pc, backend, pg>>

\* Manager.Start past the barrier: <-ctx.Done(), then Stop closes stopCh.
ManagerStops ==
    /\ Alive
    /\ run.manager = "synced"
    /\ run.cancelled
    /\ run' = [run EXCEPT !.manager = "stopped", !.stopCh = "closed"]
    /\ UNCHANGED <<graph, found, trace, steps, mu, pc, backend, pg>>

PumpSelectors == {"", HelmSelector}

\* The clusters of at most MaxCluster objects.
MaxCluster == 2

RECURSIVE clustersUpTo(_)
clustersUpTo(n) ==
    IF n = 0 THEN {{}}
    ELSE LET smaller == clustersUpTo(n - 1)
         IN smaller \cup {c \cup {obj} : c \in smaller, obj \in ClusterObjects}

PumpClusters == clustersUpTo(MaxCluster)

PumpConfigures == Configures(PumpSelectors, PumpClusters, FALSE)

PumpNext ==
    \/ PumpConfigures
    \/ GoAPI
    \/ GoManager
    \/ APIServes
    \/ ManagerRegisters
    \/ ManagerStartsFactory
    \/ Delivers
    \/ CacheSyncs

PumpSpec == Init /\ [][PumpNext]_vars

\* ------------------------------------------------------------------ main

\* The cluster of the run of main: a labelled workload and a bare volume.
MainCluster ==
    {ClusterObject("Deployment", HelmLabels), ClusterObject("PersistentVolume", EmptyMap)}

\* main with persistence enabled and no label selector.
MainConfigures == Configures({""}, {MainCluster}, TRUE)

\* apiServer.Start returns an error (the port is taken), and the goroutine
\* cancels the root context.
APIFails ==
    /\ Alive
    /\ run.api = "starting"
    /\ run' = [run EXCEPT !.api = "failed", !.cancelled = TRUE]
    /\ UNCHANGED <<graph, found, trace, steps, mu, pc, backend, pg>>

\* The select of main: case <-sigCh.
Signal ==
    /\ run.main = "running"
    /\ run' = [run EXCEPT !.main = "shutting"]
    /\ UNCHANGED <<graph, found, trace, steps, mu, pc, backend, pg>>

\* The select of main: case <-ctx.Done().
CtxDone ==
    /\ run.main = "running"
    /\ run.cancelled
    /\ run' = [run EXCEPT !.main = "shutting"]
    /\ UNCHANGED <<graph, found, trace, steps, mu, pc, backend, pg>>

\* Shutdown: cancel().
Cancels ==
    /\ run.main = "shutting"
    /\ run' = [run EXCEPT !.main = "cancelled", !.cancelled = TRUE]
    /\ UNCHANGED <<graph, found, trace, steps, mu, pc, backend, pg>>

\* Shutdown: apiServer.Stop(), which closes the server Start has built and
\* does nothing when Start has not run yet.
APIStop ==
    /\ run.main = "cancelled"
    /\ run' = [run EXCEPT !.main = "apiStopped",
                          !.api = IF @ = "serving" THEN "stopped" ELSE @]
    /\ UNCHANGED <<graph, found, trace, steps, mu, pc, backend, pg>>

\* Shutdown: the final persistentGraph.Snapshot().
FinalSnapshot ==
    /\ run.main = "apiStopped"
    /\ ~pg.panicked
    /\ backend' = SaveGraph(backend, graph)
    /\ run' = [run EXCEPT !.main = "snapshotted"]
    /\ trace' = <<Call("Snapshot", <<>>)>>
    /\ UNCHANGED <<graph, found, steps, mu, pc, pg>>

\* Shutdown: persistentGraph.Close() begins, close(pg.stopChan).
MainCloses ==
    /\ run.main = "snapshotted"
    /\ ~pg.panicked
    /\ pg' = [pg EXCEPT !.stopChan = "closed"]
    /\ run' = [run EXCEPT !.main = "closing"]
    /\ trace' = <<Call("Close", <<>>)>>
    /\ UNCHANGED <<graph, found, steps, mu, pc, backend>>

\* Close has returned and main returns: the process is gone, whatever its
\* goroutines were doing.
Exits ==
    /\ run.main = "closing"
    /\ ~pg.panicked
    /\ backend.closed
    /\ run' = [run EXCEPT !.main = "done"]
    /\ UNCHANGED <<graph, found, trace, steps, mu, pc, backend, pg>>

\* The snapshot goroutine: case <-ticker.C.
PeriodicSnapshot ==
    /\ Alive
    /\ run.snapshotter = "running"
    /\ Snapshot

\* The snapshot goroutine: case <-ctx.Done().
SnapshotterReturns ==
    /\ Alive
    /\ run.snapshotter = "running"
    /\ run.cancelled
    /\ run' = [run EXCEPT !.snapshotter = "returned"]
    /\ UNCHANGED <<graph, found, trace, steps, mu, pc, backend, pg>>

\* The steps main takes by itself once it is past its select.
MainStep ==
    \/ GoAPI
    \/ GoManager
    \/ CtxDone
    \/ Cancels
    \/ APIStop
    \/ FinalSnapshot
    \/ MainCloses
    \/ CloseDrains
    \/ CloseBackend
    \/ Exits

\* The steps of the goroutine of Manager.Start that wait for nothing but
\* the scheduler.
ManagerStep ==
    \/ ManagerRegisters
    \/ ManagerStartsFactory
    \/ ManagerStops

\* The steps of the writer goroutine.
WriterStep ==
    \/ WriterReceives
    \/ WriterTicks
    \/ WriterStops

MainNext ==
    \/ MainConfigures
    \/ MainStep
    \/ ManagerStep
    \/ WriterStep
    \/ APIServes
    \/ APIFails
    \/ Delivers
    \/ CacheSyncs
    \/ Signal
    \/ PeriodicSnapshot
    \/ SnapshotterReturns

MainSpec == Init /\ [][MainNext]_vars

\* The goroutines are scheduled; the signal, the API server of the cluster
\* (the lists and the sync of the caches) and the listener owe nothing.
FairMainSpec ==
    /\ MainSpec
    /\ WF_vars(MainConfigures)
    /\ WF_vars(MainStep)
    /\ WF_vars(ManagerStep)
    /\ WF_vars(WriterStep)
    /\ WF_vars(SnapshotterReturns)

\* ------------------------------------------- the registry, called directly

\* The number of events handed to the registry in a run.
MaxProcessed == 3

\* A pod, an autoscaler, and an object of a kind nobody registered.
RegistryObjects ==
    {ClusterObject("Pod", EmptyMap),
     ClusterObject("HorizontalPodAutoscaler", EmptyMap),
     ClusterObject("Node", EmptyMap)}

\* The group/versions of the Go types the objects come in.
RegistryVersions == {"v1", "autoscaling/v1", "autoscaling/v2"}

\* An event as the registry receives it: the object, of the Go type of its
\* kind in the given group/version, under the object's kind.
Typed(eventType, obj, apiVersion) ==
    [type |-> eventType, obj |-> obj, apiVersion |-> apiVersion]

\* ProcessorRegistry.Process, called with any object under any kind.
Processes ==
    /\ steps < MaxProcessed
    /\ \E obj \in RegistryObjects, apiVersion \in RegistryVersions,
          eventType \in {EventAdd, EventUpdate, EventDelete} :
          /\ graph' \in Process(graph, obj, obj.Kind, apiVersion, eventType)
          /\ trace' = Append(trace, Typed(eventType, obj, apiVersion))
    /\ steps' = steps + 1
    /\ UNCHANGED <<found, mu, pc, around>>

RegistrySpec == Init /\ [][Processes]_vars

\* --------------------------------------------- the registry, owners known

\* The number of events of owners and owned objects in a run.
MaxOwned == 3

\* A Service and the EndpointSlice it owns (the slice carries the label that
\* names its Service), a ConfigMap the Service owns, a Namespace and a
\* StorageClass it owns.
OwnerObjects ==
    {Object("svc", "Service", "web", "n", EmptyMap, EmptyMap, <<>>),
     Object("es", "EndpointSlice", "web-abc", "n",
            [x \in {ServiceNameLabel} |-> "web"], EmptyMap, <<"svc">>),
     Object("cm", "ConfigMap", "web-config", "n", EmptyMap, EmptyMap, <<"svc">>),
     Object("ns", "Namespace", "n", "", EmptyMap, EmptyMap, <<>>),
     Object("sc", "StorageClass", "fast", "", EmptyMap, EmptyMap, <<"ns">>)}

\* ProcessorRegistry.Process on what the informers of these kinds deliver.
ProcessesOwned ==
    /\ steps < MaxOwned
    /\ \E obj \in OwnerObjects, eventType \in {EventAdd, EventUpdate, EventDelete} :
          /\ graph' \in Process(graph, obj, obj.Kind, informerVersion(obj.Kind),
                                eventType)
          /\ trace' = Append(trace, Typed(eventType, obj, informerVersion(obj.Kind)))
    /\ steps' = steps + 1
    /\ UNCHANGED <<found, mu, pc, around>>

OwnerSpec == Init /\ [][ProcessesOwned]_vars

\* ------------------------------------------- references that come and go

\* The number of events of a run in which references come and go.
MaxReaped == 4

\* Pod P1 after an update that dropped its volumes.
ObjPbare == Object("p", "Pod", "web-1-a", "n", AppLabel("x"), EmptyMap, <<"r">>)

\* The claim "data", the Pod that mounts it and the same Pod without it.
ReapObjects == {ObjA, ObjP, ObjPbare}

\* Any event on these objects, the whole history recorded.
Reaps ==
    /\ Len(trace) < MaxReaped
    /\ \E obj \in ReapObjects, eventType \in {EventAdd, EventUpdate, EventDelete} :
          onEvent(obj, eventType, Append(trace, Event(eventType, obj)))

ReapSpec == Init /\ [][Reaps]_vars

\* ------------------------------------------------------------ pod status

StatusReady == "Ready"

StatusError == "Error"

StatusPending == "Pending"

StatusUnknown == "Unknown"

\* A container status: the ready flag and the member of State that is set.
ContainerStatus(ready, state) == [Ready |-> ready, State |-> state]

\* The loop of getPodStatus over the container statuses of a Running pod: the
\* first container that is not ready and is waiting or terminated decides.
RECURSIVE runningStatus(_)
runningStatus(containerStatuses) ==
    IF containerStatuses = <<>>
    THEN [status |-> StatusReady, message |-> "Pod is running"]
    ELSE LET cs == Head(containerStatuses)
         IN IF ~cs.Ready /\ cs.State = "waiting"
            THEN [status |-> StatusPending, message |-> "Container not ready"]
            ELSE IF ~cs.Ready /\ cs.State = "terminated"
            THEN [status |-> StatusError, message |-> "Container terminated"]
            ELSE runningStatus(Tail(containerStatuses))

\* PodProcessor.getPodStatus.
getPodStatus(pod) ==
    CASE pod.Phase = "Running" -> runningStatus(pod.ContainerStatuses)
      [] pod.Phase = "Pending" -> [status |-> StatusPending, message |-> "Pod is pending"]
      [] pod.Phase = "Succeeded" -> [status |-> StatusReady, message |-> "Pod succeeded"]
      [] pod.Phase = "Failed" -> [status |-> StatusError, message |-> "Pod failed"]
      [] pod.Phase = "Unknown" -> [status |-> StatusUnknown, message |-> "Pod status unknown"]
      [] OTHER -> [status |-> StatusUnknown, message |-> "Unknown phase"]

\* The number of containers of a pod.
MaxContainers == 2

\* The phases of the API, and one it does not know.
Phases == {"Running", "Pending", "Succeeded", "Failed", "Unknown", "Evicted"}

ContainerStatuses ==
    {ContainerStatus(ready, state) :
        ready \in BOOLEAN, state \in {"waiting", "running", "terminated"}}

RECURSIVE containersUpTo(_)
containersUpTo(n) ==
    IF n = 0 THEN {<<>>}
    ELSE containersUpTo(n - 1)
            \cup {Append(cs, c) : cs \in {s \in containersUpTo(n - 1) : Len(s) = n - 1},
                                  c \in ContainerStatuses}

\* The status of a pod as the API server reports it.
PodStatuses ==
    {[Phase |-> phase, ContainerStatuses |-> cs] :
        phase \in Phases, cs \in containersUpTo(MaxContainers)}

\* A pod of any status is about to be processed.
StatusInit ==
    /\ graph = NewGraph
    /\ found \in PodStatuses
    /\ steps = 0
    /\ trace = <<>>
    /\ mu = [writer |-> "", readers |-> {}]
    /\ pc = [t \in Writers \cup Readers |-> Idle]
    /\ backend = NewBackend
    /\ pg = NewPersistentGraph
    /\ run = NewRun

\* PodProcessor.Process, the line that sets the node's status.
Reports ==
    /\ steps = 0
    /\ steps' = 1
    /\ trace' = <<getPodStatus(found)>>
    /\ UNCHANGED <<graph, found, mu, pc, around>>

StatusSpec == StatusInit /\ [][Reports]_vars

\* --------------------------------------------------------------- restart

\* The objects of the cluster across a restart.
RestartObjects == MainCluster

\* The backend a run over the objects left behind: the node of each object,
\* as SaveNode wrote it.
LeftBehind(objs) ==
    [NewBackend EXCEPT
        !.nodes = [uid \in {o.UID : o \in objs} |->
                      LET obj == CHOOSE o \in objs : o.UID = uid
                      IN Attributes(NewNodeFromObject(obj, obj.Kind,
                                                      informerVersion(obj.Kind)))]]

\* A process about to start over the backend of an earlier run.
RestartInit ==
    /\ graph = NewGraph
    /\ found = NotFound
    /\ steps = 0
    /\ trace = <<>>
    /\ mu = [writer |-> "", readers |-> {}]
    /\ pc = [t \in Writers \cup Readers |-> Idle]
    /\ \E objs \in SUBSET RestartObjects : backend = LeftBehind(objs)
    /\ pg = NewPersistentGraph
    /\ run = NewRun

\* main up to NewServer with persistence enabled: LoadFromBackend replaces
\* the graph by the one LoadGraph built; the cluster holds what is left of
\* the objects, and new ones.
RestartConfigures ==
    /\ run.main = "created"
    /\ \E cluster \in SUBSET RestartObjects :
          run' = [run EXCEPT !.main = "configured",
                             !.cluster = cluster,
                             !.persistence = TRUE]
    /\ graph' \in LoadGraph(backend)
    /\ trace' = <<Call("LoadFromBackend", <<>>)>>
    /\ UNCHANGED <<found, steps, mu, pc, backend, pg>>

RestartNext ==
    \/ RestartConfigures
    \/ GoAPI
    \/ GoManager
    \/ APIServes
    \/ ManagerRegisters
    \/ ManagerStartsFactory
    \/ Delivers
    \/ CacheSyncs
    \/ WriterReceives
    \/ WriterTicks

RestartSpec == RestartInit /\ [][RestartNext]_vars

\* ---------------------------------------------------------- vocabulary

Last == trace[Len(trace)]

Count(bucket, uid) == Cardinality({i \in DOMAIN bucket : bucket[i] = uid})

\* The edge is held by both views: the source's outgoing map and the
\* target's incoming map.
HasEdge(g, type, from, to) ==
    /\ from \in DOMAIN g.nodes
    /\ to \in DOMAIN g.nodes
    /\ to \in DOMAIN g.nodes[from].OutgoingEdges
    /\ g.nodes[from].OutgoingEdges[to].Type = type
    /\ from \in DOMAIN g.nodes[to].IncomingEdges
    /\ g.nodes[to].IncomingEdges[from].Type = type

\* Some adjacency map holds an entry for the edge.
HoldsEdge(g, type, from, to) ==
    \/ /\ from \in DOMAIN g.nodes
       /\ to \in DOMAIN g.nodes[from].OutgoingEdges
       /\ g.nodes[from].OutgoingEdges[to].Type = type
    \/ /\ to \in DOMAIN g.nodes
       /\ from \in DOMAIN g.nodes[to].IncomingEdges
       /\ g.nodes[to].IncomingEdges[from].Type = type

\* The UIDs held by some bucket of some secondary index.
Indexed(g) ==
    (UNION {UNION {Range(g.byNamespaceKind[ns][kind]) :
                      kind \in DOMAIN g.byNamespaceKind[ns]} :
               ns \in DOMAIN g.byNamespaceKind})
    \cup (UNION {Range(g.byHelmRelease[r]) : r \in DOMAIN g.byHelmRelease})
    \cup (UNION {UNION {Range(g.byLabel[k][v]) : v \in DOMAIN g.byLabel[k]} :
                    k \in DOMAIN g.byLabel})

\* The peers some adjacency map of the graph is keyed by.
AdjacencyKeys(g) ==
    UNION {DOMAIN g.nodes[u].OutgoingEdges \cup DOMAIN g.nodes[u].IncomingEdges :
              u \in DOMAIN g.nodes}

\* ------------------------------------------------- claims on the events

\* C1: in every reachable graph state, every entry of a node's outgoing or
\* incoming adjacency map refers to a peer that is in the node map, and both
\* endpoints of the edge it holds are in the node map.
C1_NoDanglingAdjacency ==
    \A u \in DOMAIN graph.nodes :
        /\ \A k \in DOMAIN graph.nodes[u].OutgoingEdges :
              /\ k \in DOMAIN graph.nodes
              /\ graph.nodes[u].OutgoingEdges[k].FromUID \in DOMAIN graph.nodes
              /\ graph.nodes[u].OutgoingEdges[k].ToUID \in DOMAIN graph.nodes
        /\ \A k \in DOMAIN graph.nodes[u].IncomingEdges :
              /\ k \in DOMAIN graph.nodes
              /\ graph.nodes[u].IncomingEdges[k].FromUID \in DOMAIN graph.nodes
              /\ graph.nodes[u].IncomingEdges[k].ToUID \in DOMAIN graph.nodes

\* C3: an ADD event for an object that is already in the graph with the same
\* attributes (the same ADD delivered twice in a row, or a relist of an
\* object already present) leaves the whole graph as it was: node map,
\* adjacency maps, indexes and pending tables.
C3_UpsertIdempotence ==
    [][(/\ steps' = steps + 1
        /\ trace'[1].type = EventAdd
        /\ trace'[1].obj.UID \in DOMAIN graph.nodes
        /\ trace'[1].obj.UID \in DOMAIN graph'.nodes
        /\ Attributes(graph.nodes[trace'[1].obj.UID])
              = Attributes(graph'.nodes[trace'[1].obj.UID]))
       => graph' = graph]_vars

\* The same ADD event processed twice in a row: the second changes nothing.
SameAddTwice ==
    [][(steps' = steps + 1 /\ trace' = trace /\ trace'[1].type = EventAdd)
       => graph' = graph]_vars

\* C4: every node is held exactly once by the (namespace, kind) bucket of its
\* namespace (the cluster sentinel for the empty one) and kind, exactly once
\* by the bucket of its release when it has one, exactly once by the bucket
\* of each of its labels; and every bucket holds only nodes of the node map
\* whose current attributes match the bucket's key.
C4_IndexConsistency ==
    /\ \A u \in DOMAIN graph.nodes :
          LET n == graph.nodes[u]
          IN /\ Count(GetNodesByNamespaceKind(graph, n.Namespace, n.Kind), u) = 1
             /\ n.HelmRelease # ""
                   => Count(MapGetSeq(graph.byHelmRelease, n.HelmRelease), u) = 1
             /\ \A k \in DOMAIN n.Labels :
                   Count(MapGetSeq(MapGetMap(graph.byLabel, k), n.Labels[k]), u) = 1
    /\ \A ns \in DOMAIN graph.byNamespaceKind :
          \A kind \in DOMAIN graph.byNamespaceKind[ns] :
             \A u \in Range(graph.byNamespaceKind[ns][kind]) :
                /\ u \in DOMAIN graph.nodes
                /\ graph.nodes[u].Kind = kind
                /\ graph.nodes[u].Namespace = (IF ns = "_cluster" THEN "" ELSE ns)
    /\ \A r \in DOMAIN graph.byHelmRelease :
          \A u \in Range(graph.byHelmRelease[r]) :
             u \in DOMAIN graph.nodes /\ graph.nodes[u].HelmRelease = r
    /\ \A k \in DOMAIN graph.byLabel :
          \A v \in DOMAIN graph.byLabel[k] :
             \A u \in Range(graph.byLabel[k][v]) :
                /\ u \in DOMAIN graph.nodes
                /\ k \in DOMAIN graph.nodes[u].Labels
                /\ graph.nodes[u].Labels[k] = v

\* An UPDATE has relabelled a node that shares its (namespace, kind) bucket
\* with another node, and another UPDATE-able node carries a release.
C4_Witness ==
    /\ trace # <<>>
    /\ Last.type = EventUpdate
    /\ found.UID # NoNode
    /\ found.UID \in DOMAIN graph.nodes
    /\ found.Labels # graph.nodes[found.UID].Labels
    /\ Len(GetNodesByNamespaceKind(graph, found.Namespace, found.Kind)) > 1

\* An UPDATE has moved a node from one release to another.
C4_WitnessRelease ==
    /\ trace # <<>>
    /\ Last.type = EventUpdate
    /\ found.UID # NoNode
    /\ found.UID \in DOMAIN graph.nodes
    /\ found.HelmRelease # ""
    /\ graph.nodes[found.UID].HelmRelease # ""
    /\ found.HelmRelease # graph.nodes[found.UID].HelmRelease

\* An UPDATE has moved a node from one namespace to another.
C4_WitnessNamespace ==
    /\ trace # <<>>
    /\ Last.type = EventUpdate
    /\ found.UID # NoNode
    /\ found.UID \in DOMAIN graph.nodes
    /\ found.Namespace # graph.nodes[found.UID].Namespace

\* C5: after a DELETE event for u has been processed, no node's outgoing or
\* incoming adjacency map holds an entry keyed by u, and no bucket of a
\* secondary index holds u.
C5_DeletionCompleteness ==
    (trace # <<>> /\ Last.type = EventDelete)
       => /\ Last.obj.UID \notin AdjacencyKeys(graph)
          /\ Last.obj.UID \notin Indexed(graph)

\* The index half of C5 alone.
DeletionRevokesIndexes ==
    (trace # <<>> /\ Last.type = EventDelete) => Last.obj.UID \notin Indexed(graph)

\* ------------------------------------------- claims on a recorded start

Names(ref, obj) ==
    ref.Kind = obj.Kind /\ ref.Namespace = obj.Namespace /\ ref.Name = obj.Name

\* A pending table holds the edge type: fromObj -> toObj, under the known
\* source (waiting for the target) or under the known target (waiting for the
\* source), whatever group/version the ref recorded.
PendingBetween(g, type, fromObj, toObj) ==
    \/ \E ref \in DOMAIN g.pendingEdges :
          /\ Names(ref, toObj)
          /\ \E i \in DOMAIN g.pendingEdges[ref] :
                /\ g.pendingEdges[ref][i].FromUID = fromObj.UID
                /\ g.pendingEdges[ref][i].EdgeType = type
    \/ \E ref \in DOMAIN g.reversePendingEdges :
          /\ Names(ref, fromObj)
          /\ \E i \in DOMAIN g.reversePendingEdges[ref] :
                /\ g.reversePendingEdges[ref][i].ToUID = toObj.UID
                /\ g.reversePendingEdges[ref][i].EdgeType = type

Added(obj) == Event(EventAdd, obj)

\* C6: Pod P (owner r), ReplicaSet R (owner d) and Deployment D observed in
\* that order by ADD events: after P a pending table holds owns r->p; after
\* R the edge owns r->p is in the adjacency maps and a pending table holds
\* owns d->r; after D both owns d->r and owns r->p are in the adjacency maps.
C6_PendingOwnership ==
    /\ trace = <<Added(ObjP)>>
          => PendingBetween(graph, EdgeOwnership, ObjR, ObjP)
    /\ trace = <<Added(ObjP), Added(ObjR)>>
          => /\ HasEdge(graph, EdgeOwnership, "r", "p")
             /\ PendingBetween(graph, EdgeOwnership, ObjD, ObjR)
    /\ trace = <<Added(ObjP), Added(ObjR), Added(ObjD)>>
          => /\ HasEdge(graph, EdgeOwnership, "d", "r")
             /\ HasEdge(graph, EdgeOwnership, "r", "p")

\* The last clause of C6 alone: P, R, D observed in that order leave both
\* ownership edges in the adjacency maps.
OwnershipAfterAll ==
    trace = <<Added(ObjP), Added(ObjR), Added(ObjD)>>
       => /\ HasEdge(graph, EdgeOwnership, "d", "r")
          /\ HasEdge(graph, EdgeOwnership, "r", "p")

\* The relation-specific references an object makes by (kind, namespace,
\* name): a Pod mounts its claims, a claim binds its volume.
References(obj) ==
    {[Type |-> EdgePodVolume, Kind |-> "PersistentVolumeClaim",
      Namespace |-> obj.Namespace, Name |-> obj.Claims[i]] :
        i \in DOMAIN obj.Claims}
    \cup (IF obj.VolumeName # ""
          THEN {[Type |-> EdgePVCBinding, Kind |-> "PersistentVolume",
                 Namespace |-> "", Name |-> obj.VolumeName]}
          ELSE {})

Known(g, r) == findNodeByNamespaceKindName(g, r.Namespace, r.Kind, r.Name) # NoNode

\* A pending edge is registered for every reference of the object last
\* processed whose peer is not in the graph.
ReferenceRegistered ==
    trace # <<>>
       => \A r \in References(Last.obj) :
             ~Known(graph, r)
                => \E ref \in DOMAIN graph.pendingEdges :
                      /\ Names(ref, r)
                      /\ \E i \in DOMAIN graph.pendingEdges[ref] :
                            /\ graph.pendingEdges[ref][i].FromUID = Last.obj.UID
                            /\ graph.pendingEdges[ref][i].EdgeType = r.Type

\* trace[i] is the last delivery of its object.
LastDelivery(i) ==
    \A j \in (i + 1)..Len(trace) : trace[j].obj.UID # trace[i].obj.UID

\* The ADD of a peer, first observed after the last delivery of an object
\* that refers to it, leaves the edge in the adjacency maps.
ReferenceMaterializes ==
    \A i \in 1..(Len(trace) - 1) :
       \A r \in References(trace[i].obj) :
          (LastDelivery(i) /\ Last.type = EventAdd /\ Names(r, Last.obj))
             => HasEdge(graph, r.Type, trace[i].obj.UID, Last.obj.UID)

\* C7: when an observed object A makes a relation-specific reference to a
\* peer (kind, namespace, name) that is not in the graph, a pending edge for
\* it is registered; and once the peer's ADD is processed, A not having been
\* delivered again, the edge from A to the peer is in the adjacency maps.
C7_ReferencePending == ReferenceRegistered /\ ReferenceMaterializes

\* The selects edges some adjacency map holds.
SelectsEdges(g) ==
    {e \in UIDs \X UIDs : HoldsEdge(g, EdgeServiceSelector, e[1], e[2])}

\* The events of the trace up to i are ADDs of S, P1 {app:x} and P2 {app:y},
\* each once.
AllThreeAdded(i) ==
    {trace[j] : j \in 1..i} = {Added(ObjS), Added(ObjP), Added(ObjP2y)}

\* C10: Service S (selector {app:x}), Pod P1 {app:x} and Pod P2 {app:y} of
\* one namespace observed in any order: the only selects edge is S->P1; and
\* after an UPDATE of P2 that labels it {app:x}, the edge selects S->P2 is
\* in the adjacency maps.
C10_ServiceSelector ==
    /\ (Len(trace) = 3 /\ AllThreeAdded(3))
          => /\ SelectsEdges(graph) = {<<"s", "p">>}
             /\ HasEdge(graph, EdgeServiceSelector, "s", "p")
    /\ (Len(trace) = 4 /\ AllThreeAdded(3)
           /\ trace[4] = Event(EventUpdate, ObjP2x))
          => HasEdge(graph, EdgeServiceSelector, "s", "p2")

\* C10 when the Service is the last of the three to be observed.
SelectorWhenServiceLast ==
    (Len(trace) = 3 /\ AllThreeAdded(3) /\ Last = Added(ObjS))
       => /\ SelectsEdges(graph) = {<<"s", "p">>}
          /\ HasEdge(graph, EdgeServiceSelector, "s", "p")

\* ------------------------------------------------- claims on the store

\* C2: an AddNode for a UID the node map already holds keeps the node's
\* adjacency: every edge its outgoing or incoming map held before the call
\* is in the node's own maps right after it.
C2_UpsertPreservesAdjacency ==
    (trace # <<>> /\ Last.op = "AddNode" /\ found.UID # NoNode)
       => /\ found.UID \in DOMAIN graph.nodes
          /\ \A k \in DOMAIN found.OutgoingEdges :
                /\ k \in DOMAIN graph.nodes[found.UID].OutgoingEdges
                /\ graph.nodes[found.UID].OutgoingEdges[k] = found.OutgoingEdges[k]
          /\ \A k \in DOMAIN found.IncomingEdges :
                /\ k \in DOMAIN graph.nodes[found.UID].IncomingEdges
                /\ graph.nodes[found.UID].IncomingEdges[k] = found.IncomingEdges[k]

\* The step is an AddNode of obj, whose UID the node map did not hold.
Inserts(obj) ==
    /\ steps' = steps + 1
    /\ trace' = <<Call("AddNode", <<obj>>)>>
    /\ obj.UID \notin DOMAIN graph.nodes

\* C8: a pending edge of type T from a node F, still present, to a ref X:
\* right after the insertion of a node whose (kind, namespace, name) is X's,
\* whatever group/version X recorded, the edge T: F -> new node is in F's
\* outgoing map and in the new node's incoming map and the table has no entry
\* under X; and the same for a reverse-pending edge, the new node being the
\* source.
C8_PendingPromotion ==
    [][\A obj \in StoreObjects :
          Inserts(obj)
             => /\ \A ref \in DOMAIN graph.pendingEdges :
                      Names(ref, obj)
                         => /\ ref \notin DOMAIN graph'.pendingEdges
                            /\ \A i \in DOMAIN graph.pendingEdges[ref] :
                                  LET pending == graph.pendingEdges[ref][i]
                                  IN pending.FromUID \in DOMAIN graph.nodes
                                        => HasEdge(graph', pending.EdgeType,
                                                   pending.FromUID, obj.UID)
                /\ \A ref \in DOMAIN graph.reversePendingEdges :
                      Names(ref, obj)
                         => /\ ref \notin DOMAIN graph'.reversePendingEdges
                            /\ \A i \in DOMAIN graph.reversePendingEdges[ref] :
                                  LET pending == graph.reversePendingEdges[ref][i]
                                  IN pending.ToUID \in DOMAIN graph.nodes
                                        => HasEdge(graph', pending.EdgeType,
                                                   obj.UID, pending.ToUID)]_vars

\* C8 for a node F that has one pending edge only towards the ref: the
\* promotion holds whatever the group/version recorded.
LonePendingPromotion ==
    [][\A obj \in StoreObjects :
          Inserts(obj)
             => \A ref \in DOMAIN graph.pendingEdges :
                   (/\ Names(ref, obj)
                    /\ \A other \in DOMAIN graph.pendingEdges :
                          Names(other, obj) => other = ref
                    /\ Len(graph.pendingEdges[ref]) = 1
                    /\ graph.pendingEdges[ref][1].FromUID \in DOMAIN graph.nodes
                    /\ \A rr \in DOMAIN graph.reversePendingEdges : ~Names(rr, obj))
                      => /\ ref \notin DOMAIN graph'.pendingEdges
                         /\ HasEdge(graph', graph.pendingEdges[ref][1].EdgeType,
                                    graph.pendingEdges[ref][1].FromUID, obj.UID)]_vars

\* C9: right after RemoveNode(u), no entry of the pending table has u as its
\* source and no entry of the reverse-pending table has u as its target.
C9_RemoveRevokesPending ==
    (trace # <<>> /\ Last.op = "RemoveNode")
       => /\ \A ref \in DOMAIN graph.pendingEdges :
                \A i \in DOMAIN graph.pendingEdges[ref] :
                   graph.pendingEdges[ref][i].FromUID # Last.args[1]
          /\ \A ref \in DOMAIN graph.reversePendingEdges :
                \A i \in DOMAIN graph.reversePendingEdges[ref] :
                   graph.reversePendingEdges[ref][i].ToUID # Last.args[1]

\* ----------------------------------------------- claims on a resync

\* The object the events up to k delivered last under the UID.
LatestAt(k, uid) ==
    LET i == CHOOSE i \in 1..k :
                 /\ trace[i].obj.UID = uid
                 /\ \A j \in (i + 1)..k : trace[j].obj.UID # uid
    IN trace[i].obj

Inactive(obj) ==
    obj.Kind = "ReplicaSet" /\ obj.Replicas = 0 /\ obj.ReadyReplicas = 0

\* The objects say that the edge <<type, from, to>> is there: an owner
\* reference, a mounted claim, a bound volume, a selected pod.
Derives(objs, e) ==
    \E o \in objs, q \in objs :
       /\ ~Inactive(o)
       /\ \/ /\ e[1] = EdgeOwnership
             /\ o.UID = e[3] /\ q.UID = e[2]
             /\ q.UID \in Range(o.OwnerReferences)
          \/ /\ e[1] = EdgePodVolume
             /\ o.UID = e[2] /\ q.UID = e[3]
             /\ o.Kind = "Pod" /\ q.Kind = "PersistentVolumeClaim"
             /\ q.Namespace = o.Namespace /\ q.Name \in Range(o.Claims)
          \/ /\ e[1] = EdgePVCBinding
             /\ o.UID = e[2] /\ q.UID = e[3]
             /\ o.Kind = "PersistentVolumeClaim" /\ q.Kind = "PersistentVolume"
             /\ o.VolumeName # "" /\ q.Name = o.VolumeName
          \/ /\ e[1] = EdgeServiceSelector
             /\ o.UID = e[2] /\ q.UID = e[3]
             /\ o.Kind = "Service" /\ q.Kind = "Pod"
             /\ DOMAIN o.Selector # {} /\ q.Namespace = o.Namespace
             /\ matchesSelector(q.Labels, o.Selector)

\* The edges some adjacency map of the graph holds, as <<type, from, to>>.
HeldEdges(g) ==
    UNION {{<<g.nodes[u].OutgoingEdges[k].Type, g.nodes[u].OutgoingEdges[k].FromUID,
              g.nodes[u].OutgoingEdges[k].ToUID>> : k \in DOMAIN g.nodes[u].OutgoingEdges}
           \cup
           {<<g.nodes[u].IncomingEdges[k].Type, g.nodes[u].IncomingEdges[k].FromUID,
              g.nodes[u].IncomingEdges[k].ToUID>> : k \in DOMAIN g.nodes[u].IncomingEdges} :
              u \in DOMAIN g.nodes}

\* The events after the k-th are a resync: synthetic UPDATEs that re-deliver,
\* unchanged, every object observed so far.
Resynced(k) ==
    /\ k < Len(trace)
    /\ \A j \in (k + 1)..Len(trace) :
          /\ trace[j].type = EventUpdate
          /\ trace[j].obj = LatestAt(k, trace[j].obj.UID)
    /\ {trace[j].obj.UID : j \in (k + 1)..Len(trace)}
          = {trace[j].obj.UID : j \in 1..k}

\* C11: once the objects have stopped changing and every one of them has
\* been re-delivered as a synthetic UPDATE, in any order, the graph holds in
\* both adjacency views every edge derivable from the objects whose two
\* endpoints are in the graph, and holds no edge that is not derivable.
C11_ResyncConvergence ==
    \A k \in 1..Len(trace) :
       Resynced(k)
          => LET objs == {LatestAt(k, u) : u \in Observed}
             IN /\ \A e \in {EdgeOwnership, EdgePodVolume, EdgePVCBinding,
                             EdgeServiceSelector} \X (DOMAIN graph.nodes)
                                                  \X (DOMAIN graph.nodes) :
                      Derives(objs, e) => HasEdge(graph, e[1], e[2], e[3])
                /\ \A e \in HeldEdges(graph) : Derives(objs, e)

\* The second half of C11 alone: a resync leaves no edge that the objects do
\* not derive.
ResyncLeavesNoStrayEdge ==
    \A k \in 1..Len(trace) :
       Resynced(k)
          => \A e \in HeldEdges(graph) :
                Derives({LatestAt(k, u) : u \in Observed}, e)

\* C12: after an ADD or UPDATE event that carries a ReplicaSet with
\* status.replicas = 0 and readyReplicas = 0, the node map holds no node
\* under the ReplicaSet's UID and no index returns it.
C12_InactiveReplicaSetAbsent ==
    (/\ trace # <<>>
     /\ Last.type \in {EventAdd, EventUpdate}
     /\ Inactive(Last.obj))
       => /\ ~GetNode(graph, Last.obj.UID)
          /\ Last.obj.UID \notin Indexed(graph)

\* C12 for a ReplicaSet first observed inactive.
InactiveNotAdmitted ==
    (/\ trace # <<>>
     /\ Inactive(Last.obj)
     /\ \A i \in 1..Len(trace) : trace[i].obj.UID = Last.obj.UID => Inactive(trace[i].obj))
       => /\ ~GetNode(graph, Last.obj.UID)
          /\ Last.obj.UID \notin Indexed(graph)

\* ---------------------------------------------- claims on the queries

\* The edges of a response, as <<type, from, to>>.
EdgesIn(resp) ==
    {<<resp.Edges[i].Type, resp.Edges[i].FromUID, resp.Edges[i].ToUID>> :
        i \in DOMAIN resp.Edges}

ChainObserved == trace = <<Added(ObjD), Added(ObjR), Added(ObjP)>>

\* C13: Deployment D (release demo), ReplicaSet R (owner d) and Pod P
\* (owner r) observed in that order, D alone carrying a release:
\* list(release=demo) returns D, R and P, and graph(release=demo) returns
\* the three nodes and both edges owns d->r and owns r->p.
C13_OwnershipChainQueries ==
    ChainObserved
       => /\ \A nodes \in handleResources(graph, "demo", "") :
                Range(nodes) = {"d", "r", "p"}
          /\ \A resp \in handleGraph(graph, "demo", "") :
                /\ Range(resp.Nodes) = {"d", "r", "p"}
                /\ EdgesIn(resp) = {<<EdgeOwnership, "d", "r">>,
                                    <<EdgeOwnership, "r", "p">>}

\* C13, as the code has it: with D, R and P observed in that order the store
\* holds both edges, list(release=demo) returns D alone (R and P carry no
\* release), and graph(release=demo) returns D and R with the edge owns
\* d->r only (P is unmanaged and two hops from the release).
C13_ChainAsServed ==
    ChainObserved
       => /\ HasEdge(graph, EdgeOwnership, "d", "r")
          /\ HasEdge(graph, EdgeOwnership, "r", "p")
          /\ handleResources(graph, "demo", "") = {<<"d">>}
          /\ \A resp \in handleGraph(graph, "demo", "") :
                /\ resp.Nodes = <<"d", "r">>
                /\ EdgesIn(resp) = {<<EdgeOwnership, "d", "r">>}

\* The chain has been observed and the graph query has an answer for it.
C13_Witness ==
    /\ ChainObserved
    /\ \E resp \in handleGraph(graph, "demo", "") : "r" \in Range(resp.Nodes)

\* The releases and namespaces asked for.
Releases == {"demo", "blue"}

Namespaces == {"", "n"}

\* The base lists of release R: the nodes of the graph that carry R, any of
\* them, each once, in any order.
BasesOf(g, releaseName) ==
    UNION {Orders(chosen) :
              chosen \in SUBSET {u \in DOMAIN g.nodes :
                                    g.nodes[u].HelmRelease = releaseName}}

\* Some adjacency map of a base node holds an edge to or from the node.
DirectlyRelated(g, base, uid) ==
    \E b \in Range(base) :
       \/ \E k \in DOMAIN g.nodes[b].OutgoingEdges :
             g.nodes[b].OutgoingEdges[k].ToUID = uid
       \/ \E k \in DOMAIN g.nodes[b].IncomingEdges :
             g.nodes[b].IncomingEdges[k].FromUID = uid

\* C14: for any graph state and any base set of nodes with release R,
\* expand-related returns no node carrying a non-empty release different
\* from R, and returns a release-less node only if that node has a direct
\* edge, in either direction, to some base node.
C14_ExpansionReleaseIsolation ==
    \A releaseName \in Releases, namespace \in Namespaces :
       \A base \in BasesOf(graph, releaseName) :
          \A nodes \in expandRelatedNodes(graph, base, namespace, releaseName) :
             \A u \in Range(nodes) :
                /\ graph.nodes[u].HelmRelease \in {"", releaseName}
                /\ graph.nodes[u].HelmRelease = ""
                      => DirectlyRelated(graph, base, u)

\* The expansion from claim A reaches the volume and the pod that mounts A,
\* and stops there: claim B of release blue on the same volume, and the
\* ReplicaSet that owns the pod, stay out.
C14_Witness ==
    /\ {"a", "v", "b", "p", "r"} \subseteq DOMAIN graph.nodes
    /\ graph.nodes["b"].HelmRelease = "blue"
    /\ HasEdge(graph, EdgePVCBinding, "b", "v")
    /\ HasEdge(graph, EdgeOwnership, "r", "p")
    /\ \E nodes \in expandRelatedNodes(graph, <<"a">>, "", "demo") :
          Range(nodes) = {"a", "v", "p"}

\* Claim A, volume vol-1 and claim B have each been observed once, in some
\* order, and nothing else has.
SharedVolumeObserved ==
    /\ Len(trace) = 3
    /\ Range(trace) = {Added(ObjA), Added(ObjV), Added(ObjB)}

\* C15: with PVC A (release demo, volumeName vol-1), PV vol-1 (no release)
\* and PVC B (no release, volumeName vol-1, same namespace) observed in any
\* order, graph(release=demo) includes A and vol-1 and does not include B.
C15_SharedVolumeScenario ==
    SharedVolumeObserved
       => \A namespace \in Namespaces :
             \A resp \in handleGraph(graph, "demo", namespace) :
                /\ {"a", "v"} \subseteq Range(resp.Nodes)
                /\ "b" \notin Range(resp.Nodes)

\* The three have been observed, B is bound to the volume A is bound to,
\* and the query answers with A and the volume.
C15_Witness ==
    /\ SharedVolumeObserved
    /\ HasEdge(graph, EdgePVCBinding, "b", "v")
    /\ HasEdge(graph, EdgePVCBinding, "a", "v")
    /\ \E resp \in handleGraph(graph, "demo", "") :
          Range(resp.Nodes) = {"a", "v"}

\* C16: for every release R and every reachable graph state, the complete
\* node set of the release-filtered graph query (base selection, expansion,
\* PV inclusion) contains no node whose release is non-empty and different
\* from R, even when such a node is connected to R through a shared
\* cluster-scoped resource.
C16_GraphQueryReleaseIsolation ==
    \A releaseName \in Releases, namespace \in Namespaces :
       \A nodes \in graphNodes(graph, releaseName, namespace) :
          \A u \in Range(nodes) :
             graph.nodes[u].HelmRelease \in {"", releaseName}

\* What does hold: a node of another release in the answer is a
\* PersistentVolume that a claim of the release names or is bound to, and
\* the expansion alone never yields one.
C16_OnlyVolumesLeak ==
    \A releaseName \in Releases, namespace \in Namespaces :
       \A nodes \in graphNodes(graph, releaseName, namespace) :
          \A u \in Range(nodes) :
             graph.nodes[u].HelmRelease \notin {"", releaseName}
                => /\ graph.nodes[u].Kind = "PersistentVolume"
                   /\ \E c \in Range(nodes) :
                         /\ graph.nodes[c].Kind = "PersistentVolumeClaim"
                         /\ graph.nodes[c].HelmRelease = releaseName
                         /\ \/ graph.nodes[c].VolumeName = graph.nodes[u].Name
                            \/ u \in DOMAIN graph.nodes[c].OutgoingEdges

\* The number of times a response returns the edge.
Returned(resp, e) ==
    Cardinality({i \in DOMAIN resp.Edges :
                    <<resp.Edges[i].Type, resp.Edges[i].FromUID,
                      resp.Edges[i].ToUID>> = e})

\* C17: the graph query returns exactly those edges whose two endpoints are
\* both in the returned node set: no returned edge has an endpoint outside
\* the selection, and every edge held by the store between two returned
\* nodes is returned exactly once.
C17_EdgesOfSelection ==
    \A releaseName \in Releases \cup {""}, namespace \in Namespaces :
       \A resp \in handleGraph(graph, releaseName, namespace) :
          /\ \A i \in DOMAIN resp.Edges :
                {resp.Edges[i].FromUID, resp.Edges[i].ToUID}
                   \subseteq Range(resp.Nodes)
          /\ \A e \in HeldEdges(graph) :
                {e[2], e[3]} \subseteq Range(resp.Nodes) => Returned(resp, e) = 1

\* What does hold: the returned edges lie within the selection, and the
\* entries of the returned nodes' outgoing maps that lead to returned nodes
\* are returned exactly once each.
C17_OutgoingEdgesOfSelection ==
    \A releaseName \in Releases \cup {""}, namespace \in Namespaces :
       \A resp \in handleGraph(graph, releaseName, namespace) :
          /\ \A i \in DOMAIN resp.Edges :
                {resp.Edges[i].FromUID, resp.Edges[i].ToUID}
                   \subseteq Range(resp.Nodes)
          /\ \A from \in Range(resp.Nodes) :
                \A k \in DOMAIN graph.nodes[from].OutgoingEdges :
                   LET edge == graph.nodes[from].OutgoingEdges[k]
                   IN edge.ToUID \in Range(resp.Nodes)
                         => Returned(resp, <<edge.Type, edge.FromUID, edge.ToUID>>) = 1

\* The nodes indexed under the release whose namespace is the one asked
\* for or empty; all of them when no namespace is asked for.
IndexedUnder(g, releaseName, namespace) ==
    {u \in Range(GetNodesByHelmRelease(g, releaseName)) :
        namespace = "" \/ g.nodes[u].Namespace \in {namespace, ""}}

\* The PV of a claim: the nodes its binds edges lead to or, when it has no
\* such edge, the PVs named by its volumeName.
VolumesOf(g, claim) ==
    LET node == g.nodes[claim]
        bound == {node.OutgoingEdges[k].ToUID :
                     k \in {k \in DOMAIN node.OutgoingEdges :
                               /\ node.OutgoingEdges[k].Type = EdgePVCBinding
                               /\ node.OutgoingEdges[k].ToUID \in DOMAIN g.nodes}}
    IN IF bound # {} THEN bound
       ELSE {u \in DOMAIN g.nodes : /\ g.nodes[u].Kind = "PersistentVolume"
                                    /\ node.VolumeName # ""
                                    /\ g.nodes[u].Name = node.VolumeName}

\* C18: list(release=R, namespace=N) returns exactly the nodes indexed under
\* release R whose namespace equals N or is empty (all of them when N is
\* unset), plus, for each PVC of release R among them, the PV it is bound to
\* via its binds edge or, when no such edge exists, the PV whose name equals
\* the PVC's volumeName; no node is returned twice and no PV is added for a
\* PVC whose release is not R.
C18_ListByRelease ==
    \A releaseName \in Releases, namespace \in Namespaces \cup {"m"} :
       \A nodes \in handleResources(graph, releaseName, namespace) :
          LET base == IndexedUnder(graph, releaseName, namespace)
              claims == {u \in base :
                            /\ graph.nodes[u].Kind = "PersistentVolumeClaim"
                            /\ graph.nodes[u].HelmRelease = releaseName}
          IN /\ Range(nodes)
                   = base \cup UNION {VolumesOf(graph, c) : c \in claims}
             /\ Len(nodes) = Cardinality(Range(nodes))

\* Claim A, rebound to vol-2, holds a binds edge to it; vol-1 is in the
\* graph too, and the list of release demo is A and vol-2.
C18_Witness ==
    /\ {"a", "v", "w"} \subseteq DOMAIN graph.nodes
    /\ graph.nodes["a"].VolumeName = "vol-2"
    /\ HasEdge(graph, EdgePVCBinding, "a", "w")
    /\ \E nodes \in handleResources(graph, "demo", "n") : nodes = <<"a", "w">>

\* The claim was observed before its volume: no binds edge, and the list
\* finds the volume by its name.
C18_WitnessByName ==
    /\ {"a", "v"} \subseteq DOMAIN graph.nodes
    /\ graph.nodes["a"].OutgoingEdges = EmptyMap
    /\ \E nodes \in handleResources(graph, "demo", "n") : nodes = <<"a", "v">>

\* ------------------------------------------- claims on the concurrency

\* The goroutine is between the Lock and the Unlock of a mutation.
Mutating(t) == pc[t].at \in {"locked", "half", "done"}

\* What the mutation leaves behind when nothing comes between its writes.
WholeMutation(g, call) ==
    CASE call.op = "AddNode" -> AddNode(g, call.args[1])
      [] call.op = "RemoveNode" -> {RemoveNode(g, call.args[1])}
      [] call.op = "AddEdge" -> {AddEdge(g, call.args[1])}
      [] call.op = "RemoveEdge" -> {RemoveEdge(g, call.args[1], call.args[2])}
      [] call.op = "AddPendingEdge" ->
            {AddPendingEdge(g, call.args[1], call.args[2], call.args[3])}
      [] call.op = "AddReversePendingEdge" ->
            {AddReversePendingEdge(g, call.args[1], call.args[2], call.args[3])}

\* C19: no reader ever iterates a list or adjacency map obtained from the
\* store while a concurrent writer can mutate that same structure: what the
\* store hands out is a defensive copy or is used only under the read lock.
\* Here: no handler has ranged over a node's adjacency maps while a
\* mutation wrote them.
C19_NoIterationUnderWrite ==
    \A t \in Readers : ~pc[t].raced

\* What does hold: a handler ranges over the maps with the read lock
\* released, and it is the writes that come then that it races with.
C19_RangesOutsideTheLock ==
    \A t \in Readers :
       /\ pc[t].at \in {"holding", "ranging"} => t \notin mu.readers
       /\ pc[t].raced => pc[t].at = "ranging"

\* C20: every store mutation (node upsert with its pending-edge drain, node
\* removal, edge addition, edge removal, pending and reverse-pending
\* registration) executes entirely under the write lock and every store
\* query under the read lock, so no two mutations overlap and no query
\* observes a partially applied single mutation, even when processors of
\* different kinds run concurrently.
C20_LockDiscipline ==
    /\ \A t \in Writers :
          /\ Mutating(t) => mu.writer = t /\ mu.readers = {}
          /\ pc[t].at = "locked" => graph = pc[t].before
          /\ pc[t].at = "half" => graph = firstWrites(pc[t].before, pc[t].call)
          /\ pc[t].at = "done" => graph \in WholeMutation(pc[t].before, pc[t].call)
    /\ \A t1 \in Writers, t2 \in Writers :
          Mutating(t1) /\ Mutating(t2) => t1 = t2
    /\ \A r \in Readers :
          pc[r].at = "rlocked"
             => /\ r \in mu.readers
                /\ mu.writer = ""
                /\ \A t \in Writers : ~Mutating(t)

\* The pods informer is halfway through AddEdge, the edge in the claim's
\* outgoing map and not yet in the volume's incoming map, while the services
\* informer and the handler have calls left to make.
C20_Witness ==
    /\ pc["pods"].at = "half"
    /\ pc["pods"].call.op = "AddEdge"
    /\ HoldsEdge(graph, EdgePVCBinding, "a", "v")
    /\ ~HasEdge(graph, EdgePVCBinding, "a", "v")
    /\ pc["services"].at = "idle"
    /\ pc["api"].at = "idle"
    /\ steps < MaxCalls

\* ------------------------------------ claims on the order of the events

\* After an event, the node of its UID is the one its object describes, or
\* is gone after a DELETE.
LastEventShows ==
    trace # <<>>
       => LET obj == Last.obj
          IN /\ Last.type = EventDelete => obj.UID \notin DOMAIN graph.nodes
             /\ Last.type \in {EventAdd, EventUpdate} /\ ~Inactive(obj)
                   => /\ obj.UID \in DOMAIN graph.nodes
                      /\ Attributes(graph.nodes[obj.UID]) = Attributes(NodeOf(obj))

\* An event leaves the nodes of the other UIDs where they are, with the
\* attributes they have.
OtherNodesKept ==
    \A uid \in UIDs :
       uid # trace'[1].obj.UID
          => /\ (uid \in DOMAIN graph'.nodes) = (uid \in DOMAIN graph.nodes)
             /\ uid \in DOMAIN graph.nodes
                   => Attributes(graph'.nodes[uid]) = Attributes(graph.nodes[uid])

\* C21: for any sequence of events for one UID delivered in watch-source
\* order, after each event has been processed the node for that UID carries
\* the attributes of the most recent ADD or UPDATE event, and the node is
\* absent after a DELETE event (events carrying an inactive ReplicaSet
\* aside).
C21_LatestEventWins == [](LastEventShows) /\ [][OtherNodesKept]_vars

\* An UPDATE has found the Deployment under release demo and left it under
\* release blue.
C21_Witness ==
    /\ trace # <<>>
    /\ Last = Event(EventUpdate, ObjD2)
    /\ found.UID = "d"
    /\ found.HelmRelease = "demo"
    /\ graph.nodes["d"].HelmRelease = "blue"

\* ------------------------------------------------- claims on persistence

\* The edges the backend holds, as <<type, from, to>>.
PersistedEdges(b) ==
    {<<b.edges[k].Type, b.edges[k].FromUID, b.edges[k].ToUID>> : k \in DOMAIN b.edges}

\* The backend holds the nodes and the edges of the graph, and no other.
Mirror(b, g) ==
    /\ DOMAIN b.nodes = DOMAIN g.nodes
    /\ \A uid \in DOMAIN g.nodes : b.nodes[uid] = Attributes(g.nodes[uid])
    /\ PersistedEdges(b) = HeldEdges(g)

\* C22: a full snapshot repairs every gap dropped write ops left: once
\* SaveGraph has completed with no mutation beside it, the persisted node set
\* and edge set equal the in-memory ones.
\* Here the snapshot is one taken when every accepted op has been executed,
\* so that what differs is what dropped ops left.
C22_SnapshotRepairs ==
    [][Snapshot /\ pg.executed = pg.accepted => Mirror(backend', graph')]_vars

\* A mutation call of the PersistentGraph has just returned.
Mutated ==
    /\ steps' = steps + 1
    /\ trace'[1].op \in {"AddNode", "RemoveNode", "AddEdge", "RemoveEdge"}

\* The mutation that returned had an op to persist.
Persists(g, call) == call.op = "AddEdge" => AddEdgeOK(g, call.args[1])

\* A mutation leaves the graph as the in-memory store does, leaves the
\* backend alone, and either enqueues its op or, the channel being full,
\* drops it.
MutationReturns ==
    Mutated =>
       /\ graph' \in WholeMutation(graph, trace'[1])
       /\ backend' = backend
       /\ pg'.batch = pg.batch /\ pg'.executed = pg.executed
       /\ Persists(graph, trace'[1]) /\ ~pg.chanClosed =>
             IF Len(pg.writeChan) = writeChanCap
             THEN /\ pg'.writeChan = pg.writeChan
                  /\ pg'.accepted = pg.accepted
                  /\ pg'.dropped = pg.dropped + 1
             ELSE /\ Len(pg'.writeChan) = Len(pg.writeChan) + 1
                  /\ pg'.dropped = pg.dropped

\* Whatever the channel holds, the send of every op has an outcome.
NeverBlocks ==
    \A uid \in PersistUIDs, obj \in PersistObjects :
       /\ send(pg, deleteNodeOp(uid)) # {}
       /\ send(pg, saveNodeOp(NodeOf(obj))) # {}
       /\ send(pg, saveEdgeOp(PersistEdge)) # {}
       /\ send(pg, deleteEdgeOp(PersistEdge.FromUID, PersistEdge.ToUID)) # {}

\* C23: with persistence enabled a mutation never blocks on the write channel
\* and never waits for the backend: when the channel is full the new op is
\* dropped, the in-memory mutation is applied all the same, and the call
\* returns.
C23_MutationNeverBlocks == [](NeverBlocks) /\ [][MutationReturns]_vars

\* An op has been dropped at a full channel, and the graph holds the node the
\* backend never heard of.
C23_Witness ==
    /\ pg.dropped > 0
    /\ Len(pg.writeChan) = writeChanCap
    /\ trace # <<>> /\ Last.op = "AddNode"
    /\ Last.args[1].UID \in DOMAIN graph.nodes
    /\ Last.args[1].UID \notin DOMAIN backend.nodes
    /\ \A i \in DOMAIN pg.accepted : pg.accepted[i].opType # "saveNode"
                                     \/ pg.accepted[i].node.UID # Last.args[1].UID

\* C24: every accepted write op is executed exactly once and in the order it
\* was enqueued, by the flush of a full batch, by the ticker's flush or by
\* the drain of Close; the writer never holds more than a batch of unflushed
\* ops; and no accepted op is left unexecuted when Close returns.
C24_AcceptedOpsExecutedOnce ==
    /\ pg.executed \o pg.batch \o pg.writeChan = pg.accepted
    /\ Len(pg.batch) <= batchSize
    /\ Len(pg.writeChan) <= writeChanCap
    /\ backend.closed => pg.executed = pg.accepted

\* Close has returned after ops were accepted that it had to drain itself.
C24_Witness ==
    /\ backend.closed
    /\ Len(pg.accepted) >= 3
    /\ pg.executed = pg.accepted
    /\ pg.dropped = 0

\* The graph LoadGraph built from the backend.
Loaded(b, g) ==
    /\ DOMAIN g.nodes = DOMAIN b.nodes
    /\ \A uid \in DOMAIN b.nodes : Attributes(g.nodes[uid]) = b.nodes[uid]
    /\ \A k \in DOMAIN b.edges :
          k[1] \in DOMAIN b.nodes /\ k[2] \in DOMAIN b.nodes
             => /\ k[2] \in DOMAIN g.nodes[k[1]].OutgoingEdges
                /\ g.nodes[k[1]].OutgoingEdges[k[2]] = b.edges[k]
                /\ k[1] \in DOMAIN g.nodes[k[2]].IncomingEdges
                /\ g.nodes[k[2]].IncomingEdges[k[1]] = b.edges[k]
    /\ \A u \in DOMAIN g.nodes :
          /\ \A to \in DOMAIN g.nodes[u].OutgoingEdges : <<u, to>> \in DOMAIN b.edges
          /\ \A from \in DOMAIN g.nodes[u].IncomingEdges : <<from, u>> \in DOMAIN b.edges
    /\ g.pendingEdges = EmptyMap /\ g.reversePendingEdges = EmptyMap

\* C26: the graph LoadGraph produces holds every persisted node, holds in
\* both endpoints' adjacency maps every persisted edge whose two endpoints
\* are persisted nodes, holds no other adjacency entry, and its indexes are
\* consistent with its nodes.
C26_LoadRebuildsGraph ==
    [][LoadFromBackend => Loaded(backend, graph') /\ C4_IndexConsistency']_vars

\* A load has met a persisted edge with both endpoints and rebuilt it.
C26_Witness ==
    /\ trace # <<>> /\ Last.op = "LoadFromBackend"
    /\ pg.accepted = <<>>
    /\ <<"r", "d">> \in DOMAIN backend.edges
    /\ "d" \in DOMAIN MapGetMap([u \in DOMAIN graph.nodes |-> graph.nodes[u].OutgoingEdges], "r")

\* A load has met a persisted edge whose target was never persisted.
C26_WitnessDangling ==
    /\ trace # <<>> /\ Last.op = "LoadFromBackend"
    /\ pg.accepted = <<>>
    /\ <<"r", "d">> \in DOMAIN backend.edges
    /\ "d" \notin DOMAIN backend.nodes
    /\ "r" \in DOMAIN graph.nodes

\* -------------------------------------------------- claims on the pump

\* C27: with a label selector active, the events of every PersistentVolume
\* and StorageClass still reach their processors whatever the object's
\* labels, so that volumes and classes without the selected labels are in
\* the graph.  Here: once the caches have synced, every PersistentVolume and
\* StorageClass of the cluster has its node.
C27_VolumesBypassSelector ==
    run.manager = "synced" /\ run.labelSelector # ""
       => \A obj \in run.cluster :
             obj.Kind \in {"PersistentVolume", "StorageClass"}
                => obj.UID \in DOMAIN graph.nodes

\* What the factory does instead: with a selector active, a node of any kind
\* is a node of an object that carries the selected label.
C27_SelectorOnEveryKind ==
    run.labelSelector # ""
       => \A uid \in DOMAIN graph.nodes :
             selects(run.labelSelector, graph.nodes[uid].Labels)

\* C28: for each of the 19 watched kinds, the ADD the pump delivers for an
\* object of the kind is accepted by the processor registered under the kind
\* and leaves a node with the object's UID (an inactive ReplicaSet aside).
C28_EveryKindAccepted ==
    \A obj \in run.delivered :
       ~Inactive(obj) => obj.UID \in DOMAIN graph.nodes

\* The 18 kinds whose processor asserts the type its informer delivers.
C28_AllButAutoscaler ==
    \A obj \in run.delivered :
       obj.Kind # "HorizontalPodAutoscaler" /\ ~Inactive(obj)
          => /\ obj.UID \in DOMAIN graph.nodes
             /\ graph.nodes[obj.UID].Kind = obj.Kind

\* ------------------------------------------------- claims on the process

\* C25: on shutdown the HTTP server stops accepting requests, then the event
\* pump is stopped (no further event mutates the graph), then the
\* persistence channel is flushed, then the final snapshot is written, and
\* only then is the backend closed.
C25_ShutdownOrder ==
    [][/\ run.stopCh = "open" /\ run'.stopCh = "closed" => run.api # "serving"
       /\ CloseDrains => run.stopCh = "closed"
       /\ FinalSnapshot => pg.chanClosed /\ pg.executed = pg.accepted
       /\ CloseBackend => run.main = "closing"]_vars

\* The order main follows: cancel, the final snapshot, then the flush of the
\* channel inside Close, then the close of the backend.
C25_OrderAsCoded ==
    [][/\ FinalSnapshot => run.cancelled /\ ~pg.chanClosed
       /\ CloseDrains => run.main = "closing"
       /\ CloseBackend => run.main = "closing" /\ pg.executed = pg.accepted]_vars

\* C29: after the root context is cancelled the pump eventually stops, its
\* stop channel closed and no further event forwarded, whether the
\* cancellation comes before or after the cache-sync barrier.
C29_CancelStopsPump == run.cancelled ~> (run.stopCh = "closed")

\* Past the barrier the manager does stop on cancellation, as long as the
\* process lives.
C29_StopsPastTheBarrier ==
    (run.cancelled /\ run.manager = "synced")
       ~> (run.stopCh = "closed" \/ run.main = "done" \/ pg.panicked)

\* C30: the HTTP API server starts serving requests only after the informers
\* have been started and their caches have completed the initial sync.
C30_ServesAfterSync ==
    run.api = "serving" => run.manager \in {"synced", "stopped"}

\* ---------------------------------------------- claims on the registry

\* The registry has a processor for the event's kind and the object passes
\* its type assertion.
Accepted(e) == <<e.obj.Kind, e.apiVersion>> \in registerProcessors

\* C31: an event whose kind has no registered processor, or whose object
\* fails the processor's assertion, leaves nodes, edges, indexes and pending
\* tables as they were, and the events after it are processed as ever: an
\* accepted ADD still leaves its node, an accepted DELETE still removes it.
C31_RejectedEventChangesNothing ==
    [][LET e == trace'[Len(trace')]
       IN /\ ~Accepted(e) => graph' = graph
          /\ Accepted(e) /\ e.type # EventDelete => e.obj.UID \in DOMAIN graph'.nodes
          /\ Accepted(e) /\ e.type = EventDelete => e.obj.UID \notin DOMAIN graph'.nodes]_vars

\* An event of an unregistered kind and one that failed the assertion have
\* come, the graph then held a node, and the ADD after them left its node.
C31_Witness ==
    /\ Len(trace) = 3
    /\ trace[1].obj.Kind = "Node"
    /\ trace[2].obj.Kind = "HorizontalPodAutoscaler" /\ trace[2].apiVersion = "autoscaling/v1"
    /\ Accepted(trace[3]) /\ trace[3].type = EventAdd
    /\ DOMAIN graph.nodes = {trace[3].obj.UID}

\* --------------------------------------------- claims on the store's edges

\* C32: AddEdge succeeds if and only if both endpoints are nodes at the time
\* of the call: then the edge is in both adjacency maps and its op is sent;
\* when an endpoint is absent it returns false, leaves adjacency maps,
\* indexes and pending tables as they were, and enqueues no write op.
C32_AddEdgeNeedsBothEndpoints ==
    [][Mutated /\ trace'[1].op = "AddEdge" =>
          LET edge == trace'[1].args[1]
          IN IF edge.FromUID \in DOMAIN graph.nodes /\ edge.ToUID \in DOMAIN graph.nodes
             THEN /\ graph'.nodes[edge.FromUID].OutgoingEdges[edge.ToUID] = edge
                  /\ graph'.nodes[edge.ToUID].IncomingEdges[edge.FromUID] = edge
                  /\ pg' # pg
             ELSE graph' = graph /\ pg' = pg]_vars

\* AddEdge has been refused for want of its target, and nothing was sent.
C32_Witness ==
    /\ trace # <<>> /\ Last.op = "AddEdge"
    /\ "r" \in DOMAIN graph.nodes /\ "d" \notin DOMAIN graph.nodes
    /\ steps = 2
    /\ Len(pg.accepted) + Len(pg.executed) > 0
    /\ pg.dropped = 0
    /\ \A i \in DOMAIN pg.accepted : pg.accepted[i].opType = "saveNode"

\* --------------------------------------------- claims on the pending drain

\* The step is an AddNode of obj, first insert or update.
Upserts(obj) ==
    /\ steps' = steps + 1
    /\ trace' = <<Call("AddNode", <<obj>>)>>

\* C33: the pending table is drained on every upsert of the node a ref
\* names, update as well as first insert: a node F with one pending edge
\* towards the ref has, right after the upsert, the edge in its outgoing map
\* and in the upserted node's incoming map, and the table has no entry under
\* the ref.
C33_DrainOnEveryUpsert ==
    [][\A obj \in StoreObjects :
          Upserts(obj)
             => \A ref \in DOMAIN graph.pendingEdges :
                   (/\ Names(ref, obj)
                    /\ \A other \in DOMAIN graph.pendingEdges :
                          Names(other, obj) => other = ref
                    /\ Len(graph.pendingEdges[ref]) = 1
                    /\ graph.pendingEdges[ref][1].FromUID \in DOMAIN graph.nodes
                    /\ graph.pendingEdges[ref][1].FromUID # obj.UID
                    /\ \A rr \in DOMAIN graph.reversePendingEdges : ~Names(rr, obj))
                      => /\ ref \notin DOMAIN graph'.pendingEdges
                         /\ HasEdge(graph', graph.pendingEdges[ref][1].EdgeType,
                                    graph.pendingEdges[ref][1].FromUID, obj.UID)]_vars

\* ------------------------------------------------- claims on ownership

\* The step processed an ADD or UPDATE of the object.
Upserted(e) == e.type \in {EventAdd, EventUpdate}

\* C34: after an ADD or UPDATE of an object of any watched kind is fully
\* processed, every owner of it that is a node has an owns edge to the
\* object, in the owner's outgoing map and in the object's incoming map.
C34_OwnersOwn ==
    [][LET e == trace'[Len(trace')]
       IN Upserted(e)
             => \A i \in DOMAIN e.obj.OwnerReferences :
                   e.obj.OwnerReferences[i] \in DOMAIN graph'.nodes
                      => HasEdge(graph', EdgeOwnership,
                                 e.obj.OwnerReferences[i], e.obj.UID)]_vars

\* C34 for the kinds whose processor reads the owners and adds no edge of
\* another type between the owner and the object.
OwnersOwnElsewhere ==
    [][LET e == trace'[Len(trace')]
       IN Upserted(e) /\ e.obj.Kind \notin {"StorageClass", "EndpointSlice"}
             => \A i \in DOMAIN e.obj.OwnerReferences :
                   e.obj.OwnerReferences[i] \in DOMAIN graph'.nodes
                      => HasEdge(graph', EdgeOwnership,
                                 e.obj.OwnerReferences[i], e.obj.UID)]_vars

\* --------------------------------------------------- claims on stale edges

\* The types of the edges a processor derives from what its object refers to.
ReferenceTypes == {EdgePodVolume, EdgePVCBinding, EdgeServiceSelector}

\* The object was last delivered before event k by an ADD or UPDATE, and as
\* delivered it did not refer to the peer (as the peer then was) by an edge
\* of the type.
CeasedBefore(k, type, uid, peer) ==
    /\ \E i \in 1..(k - 1) : trace[i].obj.UID = uid
    /\ LET i == CHOOSE i \in 1..(k - 1) :
                   /\ trace[i].obj.UID = uid
                   /\ \A j \in (i + 1)..(k - 1) : trace[j].obj.UID # uid
       IN /\ trace[i].type # EventDelete
          /\ \A j \in 1..(i - 1) :
                (trace[j].obj.UID = peer /\ trace[j].obj = LatestAt(i, peer))
                   => ~Derives({trace[i].obj, trace[j].obj}, <<type, uid, peer>>)

\* C35: the edges an object refers to are derived again on every ADD and
\* UPDATE and the stale ones are reaped: right after an ADD or UPDATE of A,
\* A's outgoing map holds an edge to B only if A, as delivered, refers to B;
\* and when A's last delivery did not refer to B, no adjacency map holds
\* A -> B right after the next UPDATE or DELETE of B.
C35_StaleEdgesReaped ==
    trace # <<>> =>
       LET k == Len(trace)
           e == trace[k]
       IN /\ e.type # EventDelete /\ e.obj.UID \in DOMAIN graph.nodes
               => \A b \in DOMAIN graph.nodes[e.obj.UID].OutgoingEdges :
                     /\ \E i \in 1..k : trace[i].obj.UID = b
                     /\ Derives({e.obj, LatestAt(k, b)},
                                <<graph.nodes[e.obj.UID].OutgoingEdges[b].Type,
                                  e.obj.UID, b>>)
          /\ \A a \in UIDs \ {e.obj.UID}, type \in ReferenceTypes :
                e.type # EventAdd /\ CeasedBefore(k, type, a, e.obj.UID)
                   => ~HoldsEdge(graph, type, a, e.obj.UID)

\* The Pod mounted the claim, an UPDATE of the Pod dropped the volume, and
\* the claim has been updated since.
C35_Witness ==
    /\ trace = <<Event(EventAdd, ObjA), Event(EventAdd, ObjP),
                 Event(EventUpdate, ObjPbare), Event(EventUpdate, ObjA)>>
    /\ DOMAIN graph.nodes = {"a", "p"}

\* The state before: the Pod's outgoing map has lost the edge and the
\* claim's incoming map still holds it.
StaleUntilPeerMoves ==
    trace = <<Event(EventAdd, ObjA), Event(EventAdd, ObjP), Event(EventUpdate, ObjPbare)>>
       => /\ "a" \notin DOMAIN graph.nodes["p"].OutgoingEdges
          /\ "p" \in DOMAIN graph.nodes["a"].IncomingEdges

\* --------------------------------------------------- claims on pod status

NotReady(pod, state) ==
    \E i \in DOMAIN pod.ContainerStatuses :
       ~pod.ContainerStatuses[i].Ready /\ pod.ContainerStatuses[i].State = state

AllReady(pod) ==
    \A i \in DOMAIN pod.ContainerStatuses : pod.ContainerStatuses[i].Ready

\* The rows of the status table, the Running rows read for a pod whose
\* not-ready containers are all waiting or all terminated.
PodStatusRows ==
    steps = 1 =>
       LET pod == found
           status == trace[1].status
       IN /\ pod.Phase = "Running" /\ AllReady(pod) => status = StatusReady
          /\ pod.Phase = "Running" /\ NotReady(pod, "waiting")
                /\ ~NotReady(pod, "terminated")
                => status = StatusPending
          /\ pod.Phase = "Running" /\ NotReady(pod, "terminated")
                /\ ~NotReady(pod, "waiting")
                => status = StatusError
          /\ pod.Phase = "Succeeded" => status = StatusReady
          /\ pod.Phase = "Failed" => status = StatusError
          /\ pod.Phase = "Pending" => status = StatusPending
          /\ pod.Phase \notin {"Running", "Succeeded", "Failed", "Pending"}
                => status = StatusUnknown

\* C36: the status of a Pod follows the table (Running and every container
\* ready: Ready; Running with a not-ready waiting container: Pending;
\* Running with a not-ready terminated container: Error; Succeeded: Ready;
\* Failed: Error; Pending: Pending; any other phase: Unknown), and a Running
\* pod with any container not ready is never reported Ready.
C36_PodStatusTable ==
    /\ PodStatusRows
    /\ steps = 1 /\ found.Phase = "Running" /\ ~AllReady(found)
          => trace[1].status # StatusReady

\* ------------------------------------------------ claims on edge identity

\* C37: the type is part of an edge's identity: AddEdge of an edge of one
\* type between two nodes never removes or replaces an edge of another type
\* that the adjacency maps hold between the same two nodes.
C37_TypedEdgeIdentity ==
    [][\A added \in StoreEdgeTypes, from \in StoreUIDs, to \in StoreUIDs :
          (/\ from # to
           /\ steps' = steps + 1
           /\ trace' = <<Call("AddEdge", <<added, from, to>>)>>)
             => \A type \in StoreEdgeTypes \ {added} :
                   HasEdge(graph, type, from, to) => HasEdge(graph', type, from, to)]_vars

\* ------------------------------------------- claims on the two edge views

\* C38: in every reachable state, the outgoing map of F holds an edge to T
\* if and only if the incoming map of T holds an edge from F, of the same
\* type.
C38_ViewsAgree ==
    \A from \in DOMAIN graph.nodes, to \in DOMAIN graph.nodes :
       /\ to \in DOMAIN graph.nodes[from].OutgoingEdges
             <=> from \in DOMAIN graph.nodes[to].IncomingEdges
       /\ to \in DOMAIN graph.nodes[from].OutgoingEdges
             => graph.nodes[from].OutgoingEdges[to].Type
                   = graph.nodes[to].IncomingEdges[from].Type

\* ----------------------------------------------------- claims on restart

\* C39: after a restart with persistence, the graph loaded and the initial
\* list delivered as ADDs, every node of the graph is the node of an object
\* the watch source reports: no node stays for an object that was deleted
\* while the process was down.
C39_NoNodeWithoutObject ==
    (run.persistence /\ run.manager = "synced")
       => \A uid \in DOMAIN graph.nodes : \E obj \in run.cluster : obj.UID = uid

\* ----------------------------------------------------- claims on shutdown

\* C40: no graph mutation sends a write op after Close has closed the write
\* channel: in every interleaving of the shutdown with the processing of
\* events, no informer callback sends on the closed channel.
C40_NoSendAfterClose ==
    ~pg.panicked

====
